---- MODULE Spec2Model ----
(***************************************************************************)
(* A model of the charon duty pipeline.                                    *)
(*                                                                         *)
(*  - SpecVapi: the Validator-API component (core/validatorapi), one       *)
(*    action per request handler, run from the idle component.             *)
(*  - SpecStore: DutyDB / AggSigDB, a keyed store with blocking reads      *)
(*    (Store, Await, cancellation).                                        *)
(*  - SpecPipe: ParSigDB, SigAgg, AggSigDB and Broadcaster of one operator *)
(*    for one (duty, pubkey), with the duty's deadline and state.          *)
(*  - SpecSubs: the delivery of a data set to the subscribers of the       *)
(*    Fetcher and of the Validator-API component, the sets being objects.  *)
(*  - SpecFetch: the Fetcher (core/fetcher), a Fetch running in steps, one *)
(*    per validator of the definition set, then the delivery.              *)
(*  - SpecCache: the ValidatorCache (app/eth2wrap), callers running        *)
(*    concurrently, one step per lock operation and beacon node answer.    *)
(*  - SpecQuery: the query endpoints of the Validator-API component       *)
(*    (duties, validators, proposer configuration).                        *)
(*  - SpecRouter, SpecRouterLive: the HTTP router of the Validator-API and *)
(*    its reverse proxy to the beacon node, the second with the proxy      *)
(*    observing the cancellation of its context.                           *)
(*  - SpecDeposit: NewMessage and VerifyDepositAmounts of package deposit. *)
(*  - SpecPath, SpecPathLive: the proposer path of one slot across the     *)
(*    nodes of the cluster (Proposal, ParSigDB, ParSigEx, SigAgg,          *)
(*    AggSigDB, Fetcher, consensus, DutyDB), the second with every stage   *)
(*    taking the steps it can take.                                        *)
(***************************************************************************)
EXTENDS Integers, Sequences, FiniteSets, TLC

VARIABLES
    insecureTest,    \* Component.insecureTest
    builderEnabled,  \* Component.builderEnabled
    req,             \* the request being answered (NoReq when the component is idle)
    calls,           \* the subscriber calls made while answering req, in order
    ret,             \* what the handler returned: [err, data], data the set of the
                     \* values returned (empty: nil)
    \* DutyDB / AggSigDB (a keyed store with blocking reads)
    stored,          \* key -> the value stored (Nil: none)
    waiting,         \* key -> the callers registered as waiters of the key
    awaits,          \* caller -> where its Await stands: [st, key, val]
    aborted,         \* the component aborted on a fatal invariant violation
    lastStore,       \* the last Store: [key, val, res]
    \* ParSigDB, SigAgg, AggSigDB and Broadcaster of one (duty, pubkey)
    dutyType,        \* the duty's type
    progress,        \* "pending", "fetched" or "decided": how far fetch and consensus got
    dutyState,       \* the duty's state (spec 4.10, "State machine (per duty)")
    parsigs,         \* ParSigDB: share index -> the payload of its partial (Nil: none)
    doubleSigns,     \* the shares logged as double-signing
    exBroadcasts,    \* the sets handed to ParSigEx for broadcast (count)
    forwards,        \* the sets forwarded to SigAgg (count)
    sigaggIn,        \* the set SigAgg has received and not yet handled (no partials: none)
    aggCount,        \* the aggregated signatures SigAgg produced (count)
    aggErr,          \* SigAgg's error for the duty (Nil: none)
    aggsigdb,        \* AggSigDB: the payload of the aggregated signature (Nil: none)
    bcPending,       \* Broadcaster holds an aggregate it has not yet delivered
    bcAttempts,      \* submissions the Broadcaster attempted
    bnReceived,      \* the signed objects the beacon node received, in order
    expired,         \* the duty's deadline has passed
    lastInsert,      \* the last ParSigDB insert: [share, payload, res]
    \* Fetcher (core/fetcher)
    electraSlot,     \* Fetcher.electraSlot
    fetcherBuilder,  \* Fetcher.builderEnabled
    fsubs,           \* Fetcher.subs: the registered subscribers, in registration order
    freq,            \* the Fetch under way: [duty, defSet, order], order the order
                     \* in which the definition set is ranged over
    fpc,             \* where the Fetch stands: "idle", "loop", "deliver" or "done"
    fidx,            \* the position in order of the next validator of the loop
    fcache,          \* dataByCommIdx / aggAttByCommIdx of the Fetch under way
    fresp,           \* resp, the unsigned data set built so far
    fqueries,        \* the queries the Fetch has made (beacon node, AggSigDB,
                     \* DutyDB), in order, with their answers
    fcalls,          \* the subscriber calls the Fetch has made, in order
    fret,            \* the error the Fetch returned (Nil: none)
    retried,         \* idle: the duty whose Fetch has just failed with a retryable
                     \* error; in a Fetch: its duty if it is such a duty's next Fetch
    \* Delivery of one event to the subscribers of a component
    vsubs,           \* Component.subs: the registered wrappers, in registration order
    evt,             \* the last event: [by, duty, set, subs], subs the subscribers
                     \* registered when it happened
    evCalls,         \* the subscriber calls made for it, in order
    evOrig,          \* the producer's set after the delivery
    evErr,           \* the error the delivery ended with (Nil: none)
    \* ValidatorCache
    active,          \* ValidatorCache.active
    complete,        \* ValidatorCache.complete
    mu,              \* ValidatorCache.mu: the caller that holds the write lock, or 0
    trims,           \* how many times Trim has returned
    vpc,             \* where each caller of the cache stands
    vloc,            \* the locals of each caller's call, and what it returned
    \* Validator-API component, configuration of the query endpoints
    targetGasLimit,  \* Component.targetGasLimit
    \* Router of the Validator-API (HTTP)
    httpReq,         \* the HTTP request being served (NoHTTP: none)
    routerPc,        \* "idle", "proxying" (the request is in flight upstream) or
                     \* "responded"
    httpResp,        \* what the client has received
    invoked,         \* the Handler operations invoked for the request, in order
    upstream,        \* the beacon node's side of the proxied request
    proxyCtx,        \* the context given to the proxy handler: "live" or "cancelled"
    \* Package deposit (eth2util/deposit)
    depCall,         \* the call made: [fn, ...arguments] (NoCall: none)
    depRet,          \* what it returned
    \* Proposer path of one slot across the cluster, one node per operator
    pVc,             \* node -> where the Proposal call of its validator client stands
    pRet,            \* node -> what that call returned (Nil: nothing yet)
    pParsigs,        \* node -> ParSigDB: the partial signatures held, [duty, share]
    pAggs,           \* node -> AggSigDB: the duties with an aggregated signature
    pFetch,          \* node -> the Fetch of the proposer duty: "awaitRandao", or the
                     \* block fetched from the beacon node
    pDecided,        \* the block consensus decided (Nil: undecided)
    pDutyDB          \* node -> DutyDB: the proposal stored for the slot (Nil: none)

vapiVars == <<insecureTest, builderEnabled, req, calls, ret>>

storeVars == <<stored, waiting, awaits, aborted, lastStore>>

pipeVars == <<dutyType, progress, dutyState, parsigs, doubleSigns, exBroadcasts, forwards, sigaggIn,
              aggCount, aggErr, aggsigdb, bcPending, bcAttempts, bnReceived, expired,
              lastInsert>>

fetchVars == <<electraSlot, fetcherBuilder, fsubs, freq, fpc, fidx, fcache, fresp, fqueries,
              fcalls, fret, retried>>

subsVars == <<vsubs, evt, evCalls, evOrig, evErr>>

cacheVars == <<active, complete, mu, trims, vpc, vloc>>

queryVars == <<targetGasLimit>>

\* The variables the components of the duty pipeline never touch.
routerVars == <<httpReq, routerPc, httpResp, invoked, upstream, proxyCtx>>

depositVars == <<depCall, depRet>>

pathVars == <<pVc, pRet, pParsigs, pAggs, pFetch, pDecided, pDutyDB>>

moreVars == <<queryVars, routerVars, depositVars, pathVars>>

\* The variables other than the router's.
nonRouterVars == <<vapiVars, storeVars, pipeVars, fetchVars, subsVars, cacheVars, queryVars,
                   depositVars, pathVars>>

\* The variables other than those of package deposit.
nonDepositVars == <<vapiVars, storeVars, pipeVars, fetchVars, subsVars, cacheVars, queryVars,
                    routerVars, pathVars>>

\* The variables other than those of the proposer path.
nonPathVars == <<vapiVars, storeVars, pipeVars, fetchVars, subsVars, cacheVars, queryVars,
                 routerVars, depositVars>>

\* The variables of the components other than the Validator-API.
nonVapiVars == <<storeVars, pipeVars, fetchVars, subsVars, cacheVars, moreVars>>

\* The variables of the components other than DutyDB / AggSigDB.
nonStoreVars == <<vapiVars, pipeVars, fetchVars, subsVars, cacheVars, moreVars>>

\* The variables of the components other than ParSigDB, SigAgg and Broadcaster.
nonPipeVars == <<vapiVars, storeVars, fetchVars, subsVars, cacheVars, moreVars>>

\* The variables of the components other than the Fetcher and the subscribers.
nonFetchVars == <<vapiVars, storeVars, pipeVars, cacheVars, moreVars>>

\* The variables of the components other than the ValidatorCache.
nonCacheVars == <<vapiVars, storeVars, pipeVars, fetchVars, subsVars, moreVars>>

vars == <<vapiVars, storeVars, pipeVars, fetchVars, subsVars, cacheVars, moreVars>>

-----------------------------------------------------------------------------
(* Bounds *)

MaxSlot == 2
MaxBatch == 2
NumSubs == 2

-----------------------------------------------------------------------------
(* Values *)

Nil == "nil"
NoReq == [op |-> "none"]
NoRet == [err |-> Nil, data |-> {}]

Slots == 1..MaxSlot
Data == {"d1", "d2"}

\* The cluster's validators (group public keys) and one key outside the cluster.
PubKeys == {"A", "B"}
OutsideKey == "X"
AllKeys == PubKeys \cup {OutsideKey}

\* This operator's share index.
ShareIdx == 1

\* allPubSharesByKey[pubkey][idx]: the public share idx of a group key.
PubShare(pubkey, idx) == <<pubkey, idx>>

\* NewComponent: this node's public share by group key.
sharesByCoreKey == [pk \in PubKeys |-> PubShare(pk, ShareIdx)]

\* eth2Cl.ActiveValidators: validator index -> group public key.
ActiveValidators == (0 :> "A") @@ (1 :> "B") @@ (2 :> OutsideKey)
ValIdxInputs == 0..3

-----------------------------------------------------------------------------
(* Signed data and signatures.  A signature is the pair of the key that     *)
(* made it and the signing root it was made over; verifying recomputes the  *)
(* root of the data and compares both.                                      *)

MessageRoot(kind, slot, data) == <<kind, slot, data>>

Sign(key, kind, slot, data) == [key |-> key, root |-> MessageRoot(kind, slot, data)]

\* core.NewPartialSigned...(x, shareIdx)
NewPartial(kind, slot, data, sig) ==
    [kind |-> kind, slot |-> slot, data |-> data, sig |-> sig, share |-> ShareIdx]

\* core.VerifyEth2SignedData(ctx, eth2Cl, data, pubshare)
VerifyEth2SignedData(parSig, pubshare) ==
    IF /\ parSig.sig.key = pubshare
       /\ parSig.sig.root = MessageRoot(parSig.kind, parSig.slot, parSig.data)
    THEN Nil
    ELSE "signature not verified"

\* getVerifyShareFunc of NewComponent
getVerifyShareFunc(pubkey) ==
    IF pubkey \in DOMAIN sharesByCoreKey
    THEN [share |-> sharesByCoreKey[pubkey], err |-> Nil]
    ELSE [share |-> Nil, err |-> "unknown public key"]

\* A plausible slip: no early return on an unknown key and no signature check.
verifyPartialSigSkipped(parSig, pubkey) == Nil

verifyPartialSig(parSig, pubkey) ==
    IF insecureTest THEN Nil
    ELSE LET s == getVerifyShareFunc(pubkey) IN
         IF s.err # Nil THEN s.err
         ELSE VerifyEth2SignedData(parSig, s.share)

-----------------------------------------------------------------------------
(* Subscribers *)

Duty(slot, type) == [slot |-> slot, type |-> type]

\* The wrapper Subscribe registers: the subscriber gets a clone of the set.
Clone(set) == [pk \in DOMAIN set |-> set[pk]]

SubCall(s, duty, set) == [sub |-> s, duty |-> duty, set |-> Clone(set)]

\* for _, sub := range c.subs { err := sub(ctx, duty, set); if err != nil { return err } }
\* failSub is the subscriber that answers with an error (0: none does).
RECURSIVE callSubs(_, _, _, _)
callSubs(s, duty, set, failSub) ==
    IF s > NumSubs THEN [calls |-> <<>>, err |-> Nil]
    ELSE IF s = failSub
         THEN [calls |-> <<SubCall(s, duty, set)>>, err |-> "subscriber error"]
         ELSE LET rest == callSubs(s + 1, duty, set, failSub) IN
              [calls |-> <<SubCall(s, duty, set)>> \o rest.calls, err |-> rest.err]

\* for slot, set := range setsBySlot { duty := ...; for _, sub := range c.subs {...} }
\* order is the order in which the map is ranged over.
RECURSIVE callSubsBySlot(_, _, _, _, _)
callSubsBySlot(order, i, setsBySlot, type, failSub) ==
    IF i > Len(order) THEN [calls |-> <<>>, err |-> Nil]
    ELSE LET slot == order[i]
             one == callSubs(1, Duty(slot, type), setsBySlot[slot], failSub)
         IN IF one.err # Nil THEN one
            ELSE LET rest == callSubsBySlot(order, i + 1, setsBySlot, type, failSub) IN
                 [calls |-> one.calls \o rest.calls, err |-> rest.err]

\* The orders a Go map with key set S can be ranged over.
Orders(S) ==
    {o \in [1..Cardinality(S) -> S] : \A i, j \in 1..Cardinality(S) : i # j => o[i] # o[j]}

\* A plausible slip: an entry already in the slot's set is kept, so the first of
\* several items for one (slot, public key) wins.
PutBySlotKeepFirst(setsBySlot, slot, pk, parSig) ==
    LET old == IF slot \in DOMAIN setsBySlot THEN setsBySlot[slot] ELSE <<>>
        new == [k \in (DOMAIN old) \cup {pk} |-> IF k \in DOMAIN old THEN old[k] ELSE parSig]
    IN [s \in (DOMAIN setsBySlot) \cup {slot} |-> IF s = slot THEN new ELSE setsBySlot[s]]

\* psigsBySlot[slot][pk] = parSigData, the inner map made on first use.
PutBySlot(setsBySlot, slot, pk, parSig) ==
    LET old == IF slot \in DOMAIN setsBySlot THEN setsBySlot[slot] ELSE <<>>
        new == [k \in (DOMAIN old) \cup {pk} |-> IF k = pk THEN parSig ELSE old[k]]
    IN [s \in (DOMAIN setsBySlot) \cup {slot} |-> IF s = slot THEN new ELSE setsBySlot[s]]

Batches(Items) == UNION {[1..n -> Items] : n \in 0..MaxBatch}

-----------------------------------------------------------------------------
(* SubmitSyncCommitteeMessages *)

BatchItems ==
    [valIdx : ValIdxInputs, slot : Slots, data : Data, signer : PubKeys, signed : Data]

ItemSig(kind, it) == Sign(PubShare(it.signer, ShareIdx), kind, it.slot, it.signed)

\* core.NewPartialSignedSyncMessage(msg, c.shareIdx)
syncMessagePartial(msg) ==
    NewPartial("sync_message", msg.slot, msg.data, ItemSig("sync_message", msg))

RECURSIVE collectSyncMessages(_, _, _)
collectSyncMessages(messages, i, psigsBySlot) ==
    IF i > Len(messages) THEN [sets |-> psigsBySlot, err |-> Nil]
    ELSE LET msg == messages[i] IN
         IF msg.valIdx \notin DOMAIN ActiveValidators
         THEN [sets |-> psigsBySlot, err |-> "validator not found"]
         ELSE LET pk == ActiveValidators[msg.valIdx]
                  parSigData == syncMessagePartial(msg)
                  verr == verifyPartialSig(parSigData, pk)
              IN IF verr # Nil THEN [sets |-> psigsBySlot, err |-> verr]
                 ELSE collectSyncMessages(messages, i + 1,
                                          PutBySlot(psigsBySlot, msg.slot, pk, parSigData))

submitSyncCommitteeMessages(messages, order, failSub) ==
    LET c == collectSyncMessages(messages, 1, <<>>) IN
    IF c.err # Nil THEN [calls |-> <<>>, ret |-> [err |-> c.err, data |-> {}]]
    ELSE LET n == callSubsBySlot(order, 1, c.sets, "sync_message", failSub) IN
         [calls |-> n.calls, ret |-> [err |-> n.err, data |-> {}]]

SubmitSyncCommitteeMessages ==
    /\ req = NoReq
    /\ \E messages \in Batches(BatchItems), failSub \in 0..NumSubs :
         LET c == collectSyncMessages(messages, 1, <<>>) IN
         \E order \in Orders(DOMAIN c.sets) :
            LET out == submitSyncCommitteeMessages(messages, order, failSub) IN
            /\ req' = [op |-> "SubmitSyncCommitteeMessages", items |-> messages]
            /\ calls' = out.calls
            /\ ret' = out.ret
    /\ UNCHANGED <<insecureTest, builderEnabled, nonVapiVars>>

-----------------------------------------------------------------------------
(* SubmitAggregateAttestations and SubmitSyncCommitteeContributions: the    *)
(* item carries an inner selection proof, a signature of the slot made with *)
(* the group key, that is verified against the validator's group key.       *)

GroupKey(pubkey) == <<pubkey, "group">>

AggItems ==
    [valIdx : ValIdxInputs, slot : Slots, data : Data, signer : PubKeys, sel : PubKeys]

AggItemSig(kind, it) == Sign(PubShare(it.signer, ShareIdx), kind, it.slot, it.data)

SelectionProof(it) == Sign(GroupKey(it.sel), "selection", it.slot, Nil)

\* signing.VerifyAggregateAndProofSelection / core.VerifyEth2SignedData on the inner message
VerifySelection(proof, slot, eth2Pubkey) ==
    IF proof.key = GroupKey(eth2Pubkey) /\ proof.root = MessageRoot("selection", slot, Nil)
    THEN Nil
    ELSE "selection proof not verified"

\* core.NewPartialVersionedSignedAggregateAndProof / NewPartialSignedSyncContributionAndProof
aggregatePartial(kind, it) == NewPartial(kind, it.slot, it.data, AggItemSig(kind, it))

RECURSIVE collectAggregates(_, _, _)
collectAggregates(aggsAndProofs, i, psigsBySlot) ==
    IF i > Len(aggsAndProofs) THEN [sets |-> psigsBySlot, err |-> Nil]
    ELSE LET agg == aggsAndProofs[i] IN
         IF agg.valIdx \notin DOMAIN ActiveValidators
         THEN [sets |-> psigsBySlot, err |-> "validator not found"]
         ELSE LET pk == ActiveValidators[agg.valIdx]
                  serr == IF insecureTest THEN Nil
                          ELSE VerifySelection(SelectionProof(agg), agg.slot, pk)
                  parSigData == aggregatePartial("aggregator", agg)
                  verr == verifyPartialSig(parSigData, pk)
              IN IF serr # Nil THEN [sets |-> psigsBySlot, err |-> serr]
                 ELSE IF verr # Nil THEN [sets |-> psigsBySlot, err |-> verr]
                 ELSE collectAggregates(aggsAndProofs, i + 1,
                                        PutBySlot(psigsBySlot, agg.slot, pk, parSigData))

submitAggregateAttestations(aggsAndProofs, order, failSub) ==
    LET c == collectAggregates(aggsAndProofs, 1, <<>>) IN
    IF c.err # Nil THEN [calls |-> <<>>, ret |-> [err |-> c.err, data |-> {}]]
    ELSE LET n == callSubsBySlot(order, 1, c.sets, "aggregator", failSub) IN
         [calls |-> n.calls, ret |-> [err |-> n.err, data |-> {}]]

SubmitAggregateAttestations ==
    /\ req = NoReq
    /\ \E aggsAndProofs \in Batches(AggItems), failSub \in 0..NumSubs :
         LET c == collectAggregates(aggsAndProofs, 1, <<>>) IN
         \E order \in Orders(DOMAIN c.sets) :
            LET out == submitAggregateAttestations(aggsAndProofs, order, failSub) IN
            /\ req' = [op |-> "SubmitAggregateAttestations", items |-> aggsAndProofs]
            /\ calls' = out.calls
            /\ ret' = out.ret
    /\ UNCHANGED <<insecureTest, builderEnabled, nonVapiVars>>

RECURSIVE collectContributions(_, _, _)
collectContributions(contributionAndProofs, i, psigsBySlot) ==
    IF i > Len(contributionAndProofs) THEN [sets |-> psigsBySlot, err |-> Nil]
    ELSE LET contrib == contributionAndProofs[i] IN
         IF contrib.valIdx \notin DOMAIN ActiveValidators
         THEN [sets |-> psigsBySlot, err |-> "validator not found"]
         ELSE LET pk == ActiveValidators[contrib.valIdx]
                  serr == IF insecureTest THEN Nil
                          ELSE VerifySelection(SelectionProof(contrib), contrib.slot, pk)
                  parSigData == aggregatePartial("sync_contribution", contrib)
                  verr == verifyPartialSig(parSigData, pk)
              IN IF serr # Nil THEN [sets |-> psigsBySlot, err |-> serr]
                 ELSE IF verr # Nil THEN [sets |-> psigsBySlot, err |-> verr]
                 ELSE collectContributions(contributionAndProofs, i + 1,
                                           PutBySlot(psigsBySlot, contrib.slot, pk, parSigData))

submitSyncCommitteeContributions(contributionAndProofs, order, failSub) ==
    LET c == collectContributions(contributionAndProofs, 1, <<>>) IN
    IF c.err # Nil THEN [calls |-> <<>>, ret |-> [err |-> c.err, data |-> {}]]
    ELSE LET n == callSubsBySlot(order, 1, c.sets, "sync_contribution", failSub) IN
         [calls |-> n.calls, ret |-> [err |-> n.err, data |-> {}]]

SubmitSyncCommitteeContributions ==
    /\ req = NoReq
    /\ \E contributionAndProofs \in Batches(AggItems), failSub \in 0..NumSubs :
         LET c == collectContributions(contributionAndProofs, 1, <<>>) IN
         \E order \in Orders(DOMAIN c.sets) :
            LET out == submitSyncCommitteeContributions(contributionAndProofs, order, failSub) IN
            /\ req' = [op |-> "SubmitSyncCommitteeContributions",
                       items |-> contributionAndProofs]
            /\ calls' = out.calls
            /\ ret' = out.ret
    /\ UNCHANGED <<insecureTest, builderEnabled, nonVapiVars>>

-----------------------------------------------------------------------------
(* AggregateBeaconCommitteeSelections and AggregateSyncCommitteeSelections: *)
(* the verified partial selections go to the subscribers, then the handler  *)
(* awaits the aggregated selection of every (slot, pubkey) on AggSigDB.     *)
(* Each await of the registered function either answers or fails.           *)

\* What AggSigDB holds for a selection duty and validator once SigAgg has stored it.
AggregatedSelection(duty, pk) ==
    [slot |-> duty.slot, pubkey |-> pk, proof |-> Sign(GroupKey(pk), duty.type, duty.slot, Nil)]

\* c.awaitAggSigDBFunc(ctx, duty, pk)
awaitAggSigDBFunc(duty, pk, awaitOK) ==
    IF awaitOK THEN [data |-> AggregatedSelection(duty, pk), err |-> Nil]
    ELSE [data |-> Nil, err |-> "context canceled"]

\* A plausible slip: the selections gathered so far are returned with the error.
RECURSIVE awaitSelectionsKeepsPartial(_, _, _, _)
awaitSelectionsKeepsPartial(duty, pks, okAwaits, resp) ==
    IF pks = {} THEN [data |-> resp, err |-> Nil, left |-> okAwaits]
    ELSE LET pk == CHOOSE k \in pks : TRUE
             s == awaitAggSigDBFunc(duty, pk, okAwaits > 0)
         IN IF s.err # Nil THEN [data |-> resp, err |-> s.err, left |-> 0]
            ELSE awaitSelectionsKeepsPartial(duty, pks \ {pk}, okAwaits - 1,
                                             resp \cup {s.data})

\* for pk := range data { s, err := c.awaitAggSigDBFunc(ctx, duty, pk); ... resp = append(resp, ...) }
\* okAwaits is the number of awaits that still answer before one fails.
RECURSIVE awaitSelections(_, _, _, _)
awaitSelections(duty, pks, okAwaits, resp) ==
    IF pks = {} THEN [data |-> resp, err |-> Nil, left |-> okAwaits]
    ELSE LET pk == CHOOSE k \in pks : TRUE
             s == awaitAggSigDBFunc(duty, pk, okAwaits > 0)
         IN IF s.err # Nil THEN [data |-> {}, err |-> s.err, left |-> 0]
            ELSE awaitSelections(duty, pks \ {pk}, okAwaits - 1, resp \cup {s.data})

\* getAggregateBeaconCommSelection / getAggregateSyncCommSelection; the response
\* list is kept as the set of its elements (its order is the maps' range order).
RECURSIVE getAggregateSelection(_, _, _, _, _, _)
getAggregateSelection(order, i, psigsBySlot, type, okAwaits, resp) ==
    IF i > Len(order) THEN [data |-> resp, err |-> Nil]
    ELSE LET duty == Duty(order[i], type)
             one == awaitSelections(duty, DOMAIN psigsBySlot[order[i]], okAwaits, resp)
         IN IF one.err # Nil THEN [data |-> one.data, err |-> one.err]
            ELSE getAggregateSelection(order, i + 1, psigsBySlot, type, one.left, one.data)

\* core.NewPartialSignedBeaconCommitteeSelection / NewPartialSignedSyncCommitteeSelection
selectionPartial(type, selection) ==
    NewPartial(type, selection.slot, selection.data, ItemSig(type, selection))

RECURSIVE collectSelections(_, _, _, _)
collectSelections(selections, i, psigsBySlot, type) ==
    IF i > Len(selections) THEN [sets |-> psigsBySlot, err |-> Nil]
    ELSE LET selection == selections[i] IN
         IF selection.valIdx \notin DOMAIN ActiveValidators
         THEN [sets |-> psigsBySlot, err |-> "validator not found"]
         ELSE LET pubkey == ActiveValidators[selection.valIdx]
                  parSigData == selectionPartial(type, selection)
                  verr == verifyPartialSig(parSigData, pubkey)
              IN IF verr # Nil THEN [sets |-> psigsBySlot, err |-> verr]
                 ELSE collectSelections(selections, i + 1,
                          PutBySlot(psigsBySlot, selection.slot, pubkey, parSigData), type)

aggregateSelections(selections, type, order, failSub, okAwaits) ==
    LET c == collectSelections(selections, 1, <<>>, type) IN
    IF c.err # Nil THEN [calls |-> <<>>, ret |-> [err |-> c.err, data |-> {}]]
    ELSE LET n == callSubsBySlot(order, 1, c.sets, type, failSub) IN
         IF n.err # Nil THEN [calls |-> n.calls, ret |-> [err |-> n.err, data |-> {}]]
         ELSE LET a == getAggregateSelection(order, 1, c.sets, type, okAwaits, {}) IN
              [calls |-> n.calls, ret |-> [err |-> a.err, data |-> a.data]]

AggregateBeaconCommitteeSelections ==
    /\ req = NoReq
    /\ \E selections \in Batches(BatchItems), failSub \in 0..NumSubs, okAwaits \in 0..MaxBatch :
         LET c == collectSelections(selections, 1, <<>>, "prepare_aggregator") IN
         \E order \in Orders(DOMAIN c.sets) :
            LET out == aggregateSelections(selections, "prepare_aggregator",
                                           order, failSub, okAwaits) IN
            /\ req' = [op |-> "AggregateBeaconCommitteeSelections", items |-> selections]
            /\ calls' = out.calls
            /\ ret' = out.ret
    /\ UNCHANGED <<insecureTest, builderEnabled, nonVapiVars>>

AggregateSyncCommitteeSelections ==
    /\ req = NoReq
    /\ \E partialSelections \in Batches(BatchItems), failSub \in 0..NumSubs,
          okAwaits \in 0..MaxBatch :
         LET c == collectSelections(partialSelections, 1, <<>>, "prepare_sync_contribution") IN
         \E order \in Orders(DOMAIN c.sets) :
            LET out == aggregateSelections(partialSelections, "prepare_sync_contribution",
                                           order, failSub, okAwaits) IN
            /\ req' = [op |-> "AggregateSyncCommitteeSelections",
                       items |-> partialSelections]
            /\ calls' = out.calls
            /\ ret' = out.ret
    /\ UNCHANGED <<insecureTest, builderEnabled, nonVapiVars>>

-----------------------------------------------------------------------------
(* SubmitAttestations.  The scheduler's attester definitions and DutyDB's   *)
(* reverse lookup are the registered inputs dutyDefFunc and pubKeyByAttFunc.*)

\* c.dutyDefFunc(ctx, core.Duty{Slot, DutyAttester}): both validators attest in
\* committee 0 of every slot, at positions 0 and 1 of the committee.
AttesterDefinitions ==
    [A |-> [CommitteeIndex |-> 0, ValidatorCommitteeIndex |-> 0, ValidatorIndex |-> 0],
     B |-> [CommitteeIndex |-> 0, ValidatorCommitteeIndex |-> 1, ValidatorIndex |-> 1]]

\* c.pubKeyByAttFunc(ctx, slot, commIdx, valIdx): DutyDB holds the attester duties above.
pubKeyByAttFunc(slot, commIdx, valIdx) ==
    LET found == {pk \in DOMAIN AttesterDefinitions :
                    /\ AttesterDefinitions[pk].CommitteeIndex = commIdx
                    /\ AttesterDefinitions[pk].ValidatorIndex = valIdx}
    IN IF found = {} THEN [pubkey |-> Nil, err |-> "failed to find pubkey"]
       ELSE [pubkey |-> CHOOSE pk \in found : TRUE, err |-> Nil]

NoValIdx == -1

\* Pre-Electra attestations carry aggregation bits and no validator index;
\* Electra attestations carry the validator index (or none).
AttItems ==
         [version : {"deneb"}, slot : Slots, commIdx : {0, 1},
          bits : {{}, {0}, {1}, {2}, {0, 1}}, valIdx : {NoValIdx},
          data : Data, signer : PubKeys]
    \cup [version : {"electra"}, slot : Slots, commIdx : {0, 1},
          bits : {{}}, valIdx : {NoValIdx, 0, 1},
          data : Data, signer : PubKeys]
    \cup [version : {"unknown"}, slot : {1}, commIdx : {0},
          bits : {{}}, valIdx : {NoValIdx},
          data : {"d1"}, signer : {"A"}]

PreElectra == {"phase0", "altair", "bellatrix", "capella", "deneb"}

\* The loop over the duty definitions of a pre-Electra attestation: the validator
\* index of the definition in the attestation's committee whose position is the one
\* aggregation bit set; 0 (the zero value) when no definition matches.
attValIdxByBits(att) ==
    LET inComm == {pk \in DOMAIN AttesterDefinitions :
                     AttesterDefinitions[pk].CommitteeIndex = att.commIdx}
        match == {pk \in inComm :
                     AttesterDefinitions[pk].ValidatorCommitteeIndex \in att.bits}
    IN IF inComm = {} THEN [valIdx |-> 0, err |-> Nil]
       ELSE IF Cardinality(att.bits) # 1
            THEN [valIdx |-> 0, err |-> "unexpected number of aggregation bits"]
       ELSE IF match = {} THEN [valIdx |-> 0, err |-> Nil]
       ELSE [valIdx |-> AttesterDefinitions[CHOOSE pk \in match : TRUE].ValidatorIndex,
             err |-> Nil]

\* switch att.Version
attValIdx(att) ==
    IF att.version \in PreElectra THEN attValIdxByBits(att)
    ELSE IF att.version = "electra"
         THEN IF att.valIdx = NoValIdx
              THEN [valIdx |-> 0,
                    err |-> "missing attestation validator index from electra attestation"]
              ELSE [valIdx |-> att.valIdx, err |-> Nil]
    ELSE [valIdx |-> 0, err |-> "invalid attestations version"]

AttData(att) == [index |-> att.commIdx, bits |-> att.bits, valIdx |-> att.valIdx,
                 version |-> att.version, data |-> att.data]

\* core.NewPartialVersionedAttestation(att, c.shareIdx)
attestationPartial(att) ==
    NewPartial("attester", att.slot, AttData(att),
               Sign(PubShare(att.signer, ShareIdx), "attester", att.slot, AttData(att)))

RECURSIVE collectAttestations(_, _, _)
collectAttestations(attestations, i, setsBySlot) ==
    IF i > Len(attestations) THEN [sets |-> setsBySlot, err |-> Nil]
    ELSE LET att == attestations[i]
             v == attValIdx(att)
         IN IF v.err # Nil THEN [sets |-> setsBySlot, err |-> v.err]
            ELSE LET p == pubKeyByAttFunc(att.slot, att.commIdx, v.valIdx) IN
                 IF p.err # Nil THEN [sets |-> setsBySlot, err |-> p.err]
                 ELSE LET parSigData == attestationPartial(att)
                          verr == verifyPartialSig(parSigData, p.pubkey)
                      IN IF verr # Nil THEN [sets |-> setsBySlot, err |-> verr]
                         ELSE collectAttestations(attestations, i + 1,
                                  PutBySlot(setsBySlot, att.slot, p.pubkey, parSigData))

submitAttestations(attestations, order, failSub) ==
    LET c == collectAttestations(attestations, 1, <<>>) IN
    IF c.err # Nil THEN [calls |-> <<>>, ret |-> [err |-> c.err, data |-> {}]]
    ELSE LET n == callSubsBySlot(order, 1, c.sets, "attester", failSub) IN
         [calls |-> n.calls, ret |-> [err |-> n.err, data |-> {}]]

SubmitAttestations ==
    /\ req = NoReq
    /\ \E attestations \in Batches(AttItems), failSub \in 0..NumSubs :
         LET c == collectAttestations(attestations, 1, <<>>) IN
         \E order \in Orders(DOMAIN c.sets) :
            LET out == submitAttestations(attestations, order, failSub) IN
            /\ req' = [op |-> "SubmitAttestations", items |-> attestations]
            /\ calls' = out.calls
            /\ ret' = out.ret
    /\ UNCHANGED <<insecureTest, builderEnabled, nonVapiVars>>

-----------------------------------------------------------------------------
(* SubmitValidatorRegistrations: every registration is verified and handed  *)
(* to the subscribers on its own, one after the other.                      *)

\* A registration names the group key; its timestamp gives the slot of the duty
\* (SlotFromTimestamp), which is what the item carries.
RegItems == [pubkey : AllKeys, slot : Slots, data : Data, signer : PubKeys]

\* getPubShareFunc of NewComponent
getPubShareFunc(pubkey) ==
    IF pubkey \in DOMAIN sharesByCoreKey
    THEN [share |-> sharesByCoreKey[pubkey], ok |-> TRUE]
    ELSE [share |-> Nil, ok |-> FALSE]

\* core.NewPartialVersionedSignedValidatorRegistration(registration, c.shareIdx)
registrationPartial(registration) ==
    NewPartial("builder_registration", registration.slot, registration.data,
               Sign(PubShare(registration.signer, ShareIdx), "builder_registration",
                    registration.slot, registration.data))

\* submitRegistration answering a registration of a key outside the cluster
\* with an error.
submitRegistrationRejects(registration, failSub) ==
    IF ~getPubShareFunc(registration.pubkey).ok
    THEN [calls |-> <<>>, err |-> "pubshare not found"]
    ELSE LET duty == Duty(registration.slot, "builder_registration")
             signedData == registrationPartial(registration)
             verr == verifyPartialSig(signedData, registration.pubkey)
         IN IF verr # Nil THEN [calls |-> <<>>, err |-> verr]
            ELSE callSubs(1, duty, (registration.pubkey :> signedData), failSub)

submitRegistration(registration, failSub) ==
    IF ~getPubShareFunc(registration.pubkey).ok
    THEN [calls |-> <<>>, err |-> Nil]    \* swallowed
    ELSE LET duty == Duty(registration.slot, "builder_registration")
             signedData == registrationPartial(registration)
             verr == verifyPartialSig(signedData, registration.pubkey)
         IN IF verr # Nil THEN [calls |-> <<>>, err |-> verr]
            ELSE callSubs(1, duty, (registration.pubkey :> signedData), failSub)

RECURSIVE submitRegistrations(_, _, _)
submitRegistrations(registrations, i, failSub) ==
    IF i > Len(registrations) THEN [calls |-> <<>>, err |-> Nil]
    ELSE LET one == submitRegistration(registrations[i], failSub) IN
         IF one.err # Nil THEN one
         ELSE LET rest == submitRegistrations(registrations, i + 1, failSub) IN
              [calls |-> one.calls \o rest.calls, err |-> rest.err]

submitValidatorRegistrations(registrations, failSub) ==
    IF Len(registrations) = 0 THEN [calls |-> <<>>, ret |-> NoRet]
    ELSE IF ~builderEnabled THEN [calls |-> <<>>, ret |-> NoRet]
    ELSE LET r == submitRegistrations(registrations, 1, failSub) IN
         [calls |-> r.calls, ret |-> [err |-> r.err, data |-> {}]]

SubmitValidatorRegistrations ==
    /\ req = NoReq
    /\ \E registrations \in Batches(RegItems), failSub \in 0..NumSubs :
         LET out == submitValidatorRegistrations(registrations, failSub) IN
         /\ req' = [op |-> "SubmitValidatorRegistrations", items |-> registrations]
         /\ calls' = out.calls
         /\ ret' = out.ret
    /\ UNCHANGED <<insecureTest, builderEnabled, nonVapiVars>>

-----------------------------------------------------------------------------
(* SubmitVoluntaryExit *)

\* eth2wrap.FetchSlotsConfig: slots per epoch of the chain.
SlotsPerEpoch == 2

Epochs == 0..(MaxSlot \div SlotsPerEpoch)

ExitItems == [valIdx : ValIdxInputs, epoch : Epochs, signer : PubKeys, signed : Epochs]

\* core.NewPartialSignedVoluntaryExit(exit, c.shareIdx)
exitPartial(exit) ==
    NewPartial("exit", SlotsPerEpoch * exit.epoch,
               [valIdx |-> exit.valIdx, epoch |-> exit.epoch],
               Sign(PubShare(exit.signer, ShareIdx), "exit", SlotsPerEpoch * exit.epoch,
                    [valIdx |-> exit.valIdx, epoch |-> exit.signed]))

submitVoluntaryExit(exit, failSub) ==
    IF exit.valIdx \notin DOMAIN ActiveValidators
    THEN [calls |-> <<>>, ret |-> [err |-> "validator not found", data |-> {}]]
    ELSE LET pubkey == ActiveValidators[exit.valIdx]
             duty == Duty(SlotsPerEpoch * exit.epoch, "exit")
             parSigData == exitPartial(exit)
             verr == verifyPartialSig(parSigData, pubkey)
         IN IF verr # Nil THEN [calls |-> <<>>, ret |-> [err |-> verr, data |-> {}]]
            ELSE LET n == callSubs(1, duty, (pubkey :> parSigData), failSub) IN
                 [calls |-> n.calls, ret |-> [err |-> n.err, data |-> {}]]

SubmitVoluntaryExit ==
    /\ req = NoReq
    /\ \E exit \in ExitItems, failSub \in 0..NumSubs :
         LET out == submitVoluntaryExit(exit, failSub) IN
         /\ req' = [op |-> "SubmitVoluntaryExit", items |-> <<exit>>]
         /\ calls' = out.calls
         /\ ret' = out.ret
    /\ UNCHANGED <<insecureTest, builderEnabled, nonVapiVars>>

-----------------------------------------------------------------------------
(* Proposals.  A versioned proposal names its fork version, whether it is   *)
(* blinded, and the block message: slot, proposer index and body.           *)

Versions == {"phase0", "altair", "bellatrix", "capella", "deneb", "electra"}
BlindedVersions == {"bellatrix", "capella", "deneb", "electra"}
VersionInputs == Versions \cup {"unknown"}

\* (proposer index, body) of the block messages drawn as inputs.
Messages == {[idx |-> 0, body |-> "b1"], [idx |-> 1, body |-> "b1"], [idx |-> 0, body |-> "b2"]}

\* v.ProposerIndex() / v.Slot() of a versioned proposal: an error when the version
\* is not supported, or has no blinded form.
Supported(version, blinded) ==
    /\ version \in Versions
    /\ blinded => version \in BlindedVersions

\* ssz HashTreeRoot of a block message
HashTreeRoot(p) == <<"htr", p.slot, p.idx, p.body>>

\* The values DutyDB can hold for the proposer duty of a slot.
DutyProposals(slot) ==
    {[version |-> v, blinded |-> b, slot |-> slot, idx |-> m.idx, body |-> m.body,
      ConsensusValue |-> 0, ExecutionValue |-> 0] :
        v \in VersionInputs, b \in BOOLEAN, m \in Messages}

\* c.awaitProposalFunc(ctx, slot): the stored proposal, or an error.
AwaitProposalResults(slot) ==
    {[data |-> Nil, err |-> "context canceled"]}
        \cup {[data |-> p, err |-> Nil] : p \in DutyProposals(slot)}

\* c.dutyDefFunc(ctx, proposer duty): the definition set, or an error.
ProposerDefSets == {[set |-> {}, err |-> "not found"],
                    [set |-> {"A"}, err |-> Nil],
                    [set |-> {OutsideKey}, err |-> Nil],
                    [set |-> {"A", "B"}, err |-> Nil]}

getProposerPubkey(defSet) ==
    IF defSet.err # Nil THEN [pubkey |-> Nil, err |-> defSet.err]
    ELSE IF Cardinality(defSet.set) # 1
         THEN [pubkey |-> Nil, err |-> "unexpected amount of proposer duties"]
    ELSE [pubkey |-> CHOOSE pk \in defSet.set : TRUE, err |-> Nil]

\* A mutant: the hash tree roots of the two messages are not compared.
propDataMatchesDutyNoRoot(opts, prop) ==
    IF ~Supported(prop.version, prop.blinded)
    THEN "cannot fetch validator index from dutydb proposal"
    ELSE IF ~Supported(opts.version, opts.blinded)
    THEN "cannot fetch validator index from VC proposal"
    ELSE IF prop.idx # opts.idx THEN "dutydb and VC proposals have different index"
    ELSE IF opts.blinded # prop.blinded
    THEN "dutydb and VC proposals have different blinded value"
    ELSE IF opts.version # prop.version THEN "dutydb and VC proposals have different version"
    ELSE Nil

\* A mutant: the switch over the version of the DutyDB proposal has no electra case.
propDataMatchesDutyPreElectra(opts, prop) ==
    IF ~Supported(prop.version, prop.blinded)
    THEN "cannot fetch validator index from dutydb proposal"
    ELSE IF ~Supported(opts.version, opts.blinded)
    THEN "cannot fetch validator index from VC proposal"
    ELSE IF prop.idx # opts.idx THEN "dutydb and VC proposals have different index"
    ELSE IF opts.blinded # prop.blinded
    THEN "dutydb and VC proposals have different blinded value"
    ELSE IF opts.version # prop.version THEN "dutydb and VC proposals have different version"
    ELSE IF prop.version \in PreElectra
         THEN IF HashTreeRoot(prop) # HashTreeRoot(opts)
              THEN "dutydb and VC proposal data have different hash tree root"
              ELSE Nil
    ELSE "unexpected block version"

propDataMatchesDuty(opts, prop) ==
    IF ~Supported(prop.version, prop.blinded)
    THEN "cannot fetch validator index from dutydb proposal"
    ELSE IF ~Supported(opts.version, opts.blinded)
    THEN "cannot fetch validator index from VC proposal"
    ELSE IF prop.idx # opts.idx THEN "dutydb and VC proposals have different index"
    ELSE IF opts.blinded # prop.blinded
    THEN "dutydb and VC proposals have different blinded value"
    ELSE IF opts.version # prop.version THEN "dutydb and VC proposals have different version"
    ELSE IF prop.version \in Versions
         THEN IF HashTreeRoot(prop) # HashTreeRoot(opts)
              THEN "dutydb and VC proposal data have different hash tree root"
              ELSE Nil
    ELSE "unexpected block version"

\* The signed proposals a validator client submits to submit_block.
SignedProposals ==
    [version : VersionInputs, blinded : BOOLEAN, slot : Slots,
     idx : {0, 1}, body : {"b1", "b2"}, signer : PubKeys]

ProposalMsg(p) == [version |-> p.version, blinded |-> p.blinded, idx |-> p.idx, body |-> p.body]

\* core.NewPartialVersionedSignedProposal(opts.Proposal, c.shareIdx)
NewPartialProposal(p) ==
    NewPartial("proposer", p.slot, ProposalMsg(p),
               Sign(PubShare(p.signer, ShareIdx), "proposer", p.slot, ProposalMsg(p)))

\* The part of SubmitProposal and SubmitBlindedProposal after opts.Proposal.Slot().
submitProposalFrom(opts, defSet, awaited, failSub) ==
    LET duty == Duty(opts.slot, "proposer")
        pk == getProposerPubkey(defSet)
    IN IF pk.err # Nil THEN [calls |-> <<>>, ret |-> [err |-> pk.err, data |-> {}]]
       ELSE IF awaited.err # Nil
            THEN [calls |-> <<>>,
                  ret |-> [err |-> "could not fetch block definition from dutydb",
                           data |-> Nil]]
       ELSE LET merr == propDataMatchesDuty(opts, awaited.data) IN
            IF merr # Nil
            THEN [calls |-> <<>>,
                  ret |-> [err |-> "consensus proposal and VC-submitted one do not match",
                           data |-> Nil]]
            ELSE LET signedData == NewPartialProposal(opts)
                     verr == verifyPartialSig(signedData, pk.pubkey)
                 IN IF verr # Nil THEN [calls |-> <<>>, ret |-> [err |-> verr, data |-> {}]]
                    ELSE LET n == callSubs(1, duty, (pk.pubkey :> signedData), failSub) IN
                         [calls |-> n.calls, ret |-> [err |-> n.err, data |-> {}]]

submitProposal(opts, defSet, awaited, failSub) ==
    IF ~Supported(opts.version, opts.blinded)
    THEN [calls |-> <<>>, ret |-> [err |-> "unsupported version", data |-> {}]]
    ELSE submitProposalFrom(opts, defSet, awaited, failSub)

SubmitProposal ==
    /\ req = NoReq
    /\ \E opts \in SignedProposals, defSet \in ProposerDefSets, failSub \in 0..NumSubs :
       \E awaited \in AwaitProposalResults(opts.slot) :
         LET out == submitProposal(opts, defSet, awaited, failSub) IN
         /\ req' = [op |-> "SubmitProposal", items |-> <<opts>>, defSet |-> defSet,
                    awaited |-> awaited]
         /\ calls' = out.calls
         /\ ret' = out.ret
    /\ UNCHANGED <<insecureTest, builderEnabled, nonVapiVars>>

\* The blinded proposals a validator client submits to submit_blinded_block: the
\* endpoint's type has no blinded flag, the handler sets Blinded: true.
SignedBlindedProposals == {p \in SignedProposals : p.blinded}

submitBlindedProposal(opts, defSet, awaited, failSub) ==
    IF opts.version \notin BlindedVersions
    THEN [calls |-> <<>>, ret |-> [err |-> "unsupported version", data |-> {}]]
    ELSE submitProposalFrom([opts EXCEPT !.blinded = TRUE], defSet, awaited, failSub)

SubmitBlindedProposal ==
    /\ req = NoReq
    /\ \E opts \in SignedBlindedProposals, defSet \in ProposerDefSets,
          failSub \in 0..NumSubs :
       \E awaited \in AwaitProposalResults(opts.slot) :
         LET out == submitBlindedProposal(opts, defSet, awaited, failSub) IN
         /\ req' = [op |-> "SubmitBlindedProposal", items |-> <<opts>>, defSet |-> defSet,
                    awaited |-> awaited]
         /\ calls' = out.calls
         /\ ret' = out.ret
    /\ UNCHANGED <<insecureTest, builderEnabled, nonVapiVars>>

-----------------------------------------------------------------------------
(* Proposal: the partial randao reveal goes to the subscribers under the    *)
(* randao duty of the slot, then the handler awaits the DutyDB proposal.    *)

\* eth2util.EpochFromSlot
EpochFromSlot(slot) == slot \div SlotsPerEpoch

RandaoOpts == [slot : Slots, signer : PubKeys, signed : Epochs]

\* The values of the two v3 fields a stored proposal may carry.
StoredValues == {0, 7}

\* core.NewPartialSignedRandao(sigEpoch.Epoch, sigEpoch.Signature, c.shareIdx)
randaoPartial(opts) ==
    LET epoch == EpochFromSlot(opts.slot) IN
    NewPartial("randao", epoch * SlotsPerEpoch, epoch,
               Sign(PubShare(opts.signer, ShareIdx), "randao",
                    opts.signed * SlotsPerEpoch, opts.signed))

proposal(opts, defSet, awaited, failSub) ==
    LET pk == getProposerPubkey(defSet) IN
    IF pk.err # Nil THEN [calls |-> <<>>, ret |-> [err |-> pk.err, data |-> {}]]
    ELSE LET duty == Duty(opts.slot, "randao")
             parSig == randaoPartial(opts)
             verr == verifyPartialSig(parSig, pk.pubkey)
         IN IF verr # Nil THEN [calls |-> <<>>, ret |-> [err |-> verr, data |-> {}]]
            ELSE LET n == callSubs(1, duty, (pk.pubkey :> parSig), failSub) IN
                 IF n.err # Nil THEN [calls |-> n.calls, ret |-> [err |-> n.err, data |-> {}]]
                 ELSE IF awaited.err # Nil
                      THEN [calls |-> n.calls, ret |-> [err |-> awaited.err, data |-> {}]]
                 ELSE [calls |-> n.calls,
                       ret |-> [err |-> Nil,
                                data |-> {[awaited.data EXCEPT !.ConsensusValue = 1,
                                                               !.ExecutionValue = 1]}]]

Proposal ==
    /\ req = NoReq
    /\ \E opts \in RandaoOpts, defSet \in ProposerDefSets, failSub \in 0..NumSubs :
       \E awaited \in AwaitProposalResults(opts.slot), cv \in StoredValues, ev \in StoredValues :
         LET inDuty == IF awaited.err # Nil THEN awaited
                       ELSE [awaited EXCEPT !.data.ConsensusValue = cv,
                                            !.data.ExecutionValue = ev]
             out == proposal(opts, defSet, inDuty, failSub)
         IN /\ req' = [op |-> "Proposal", items |-> <<opts>>, defSet |-> defSet,
                       awaited |-> inDuty]
            /\ calls' = out.calls
            /\ ret' = out.ret
    /\ UNCHANGED <<insecureTest, builderEnabled, nonVapiVars>>

-----------------------------------------------------------------------------
(* AttestationData, AggregateAttestation and SyncCommitteeContribution:     *)
(* the answer of the registered DutyDB await function, wrapped.             *)

\* The answers of an await function of DutyDB: the stored value, or an error.
AwaitResults == {[data |-> Nil, err |-> "context canceled"]}
                    \cup {[data |-> d, err |-> Nil] : d \in Data}

Roots == {"r1", "r2"}

\* wrapResponse
wrapResponse(data) == [err |-> Nil, data |-> {data}]

\* A mutant: the error of the await function is not looked at.
awaitedDataErrIgnored(opts, awaited) == wrapResponse(awaited.data)

\* att, err := c.awaitAttFunc(...); if err != nil { return nil, err }; return wrapResponse(att), nil
awaitedData(opts, awaited) ==
    IF awaited.err # Nil THEN [err |-> awaited.err, data |-> {}]
    ELSE wrapResponse(awaited.data)

AttestationData ==
    /\ req = NoReq
    /\ \E slot \in Slots, commIdx \in {0, 1}, awaited \in AwaitResults :
         LET opts == [slot |-> slot, commIdx |-> commIdx] IN
         /\ req' = [op |-> "AttestationData", items |-> <<opts>>, awaited |-> awaited]
         /\ calls' = <<>>
         /\ ret' = awaitedData(opts, awaited)
    /\ UNCHANGED <<insecureTest, builderEnabled, nonVapiVars>>

AggregateAttestation ==
    /\ req = NoReq
    /\ \E slot \in Slots, root \in Roots, awaited \in AwaitResults :
         LET opts == [slot |-> slot, root |-> root] IN
         /\ req' = [op |-> "AggregateAttestation", items |-> <<opts>>, awaited |-> awaited]
         /\ calls' = <<>>
         /\ ret' = awaitedData(opts, awaited)
    /\ UNCHANGED <<insecureTest, builderEnabled, nonVapiVars>>

SyncCommitteeContribution ==
    /\ req = NoReq
    /\ \E slot \in Slots, subcommIdx \in {0, 1}, root \in Roots, awaited \in AwaitResults :
         LET opts == [slot |-> slot, subcommIdx |-> subcommIdx, root |-> root] IN
         /\ req' = [op |-> "SyncCommitteeContribution", items |-> <<opts>>,
                    awaited |-> awaited]
         /\ calls' = <<>>
         /\ ret' = awaitedData(opts, awaited)
    /\ UNCHANGED <<insecureTest, builderEnabled, nonVapiVars>>

-----------------------------------------------------------------------------

\* The handler has returned and its response is delivered: the component is idle.
Return ==
    /\ req # NoReq
    /\ req' = NoReq
    /\ calls' = <<>>
    /\ ret' = NoRet
    /\ UNCHANGED <<insecureTest, builderEnabled, nonVapiVars>>

\* NewComponent (builder API on or off) or NewComponentInsecure.
InitVapi ==
    /\ insecureTest \in BOOLEAN
    /\ builderEnabled \in BOOLEAN
    /\ insecureTest => ~builderEnabled
    /\ req = NoReq
    /\ calls = <<>>
    /\ ret = NoRet

NextVapi ==
    \/ SubmitSyncCommitteeMessages
    \/ SubmitAggregateAttestations
    \/ SubmitSyncCommitteeContributions
    \/ AggregateBeaconCommitteeSelections
    \/ AggregateSyncCommitteeSelections
    \/ SubmitAttestations
    \/ SubmitValidatorRegistrations
    \/ SubmitVoluntaryExit
    \/ SubmitProposal
    \/ SubmitBlindedProposal
    \/ Proposal
    \/ AttestationData
    \/ AggregateAttestation
    \/ SyncCommitteeContribution
    \/ Return

-----------------------------------------------------------------------------
(* Claims about the Validator-API component (SpecVapi).                     *)

\* A partial signature that is a signature, by this operator's share of the
\* validator pubkey, of the data it carries.
SignedByOwnShare(pk, parSig) ==
    /\ pk \in PubKeys
    /\ parSig.sig.key = PubShare(pk, ShareIdx)
    /\ parSig.sig.root = MessageRoot(parSig.kind, parSig.slot, parSig.data)

SubmissionOps ==
    {"SubmitAttestations", "Proposal", "SubmitProposal", "SubmitBlindedProposal",
     "SubmitValidatorRegistrations", "SubmitVoluntaryExit", "SubmitAggregateAttestations",
     "SubmitSyncCommitteeMessages", "SubmitSyncCommitteeContributions",
     "AggregateBeaconCommitteeSelections", "AggregateSyncCommitteeSelections"}

NoTarget == [pk |-> Nil, par |-> Nil]

\* The validator an item of request r is for and the partial signature made of it;
\* NoTarget when the request does not resolve the item to a validator.
ItemTarget(r, it) ==
    CASE r.op = "SubmitSyncCommitteeMessages" ->
            IF it.valIdx \in DOMAIN ActiveValidators
            THEN [pk |-> ActiveValidators[it.valIdx], par |-> syncMessagePartial(it)]
            ELSE NoTarget
      [] r.op = "AggregateBeaconCommitteeSelections" ->
            IF it.valIdx \in DOMAIN ActiveValidators
            THEN [pk |-> ActiveValidators[it.valIdx],
                  par |-> selectionPartial("prepare_aggregator", it)]
            ELSE NoTarget
      [] r.op = "AggregateSyncCommitteeSelections" ->
            IF it.valIdx \in DOMAIN ActiveValidators
            THEN [pk |-> ActiveValidators[it.valIdx],
                  par |-> selectionPartial("prepare_sync_contribution", it)]
            ELSE NoTarget
      [] r.op = "SubmitAggregateAttestations" ->
            IF it.valIdx \in DOMAIN ActiveValidators
            THEN [pk |-> ActiveValidators[it.valIdx], par |-> aggregatePartial("aggregator", it)]
            ELSE NoTarget
      [] r.op = "SubmitSyncCommitteeContributions" ->
            IF it.valIdx \in DOMAIN ActiveValidators
            THEN [pk |-> ActiveValidators[it.valIdx],
                  par |-> aggregatePartial("sync_contribution", it)]
            ELSE NoTarget
      [] r.op = "SubmitVoluntaryExit" ->
            IF it.valIdx \in DOMAIN ActiveValidators
            THEN [pk |-> ActiveValidators[it.valIdx], par |-> exitPartial(it)]
            ELSE NoTarget
      [] r.op = "SubmitAttestations" ->
            IF attValIdx(it).err = Nil
               /\ pubKeyByAttFunc(it.slot, it.commIdx, attValIdx(it).valIdx).err = Nil
            THEN [pk |-> pubKeyByAttFunc(it.slot, it.commIdx, attValIdx(it).valIdx).pubkey,
                  par |-> attestationPartial(it)]
            ELSE NoTarget
      [] r.op = "SubmitValidatorRegistrations" ->
            [pk |-> it.pubkey, par |-> registrationPartial(it)]
      [] r.op = "Proposal" ->
            IF getProposerPubkey(r.defSet).err = Nil
            THEN [pk |-> getProposerPubkey(r.defSet).pubkey, par |-> randaoPartial(it)]
            ELSE NoTarget
      [] r.op \in {"SubmitProposal", "SubmitBlindedProposal"} ->
            IF getProposerPubkey(r.defSet).err = Nil
            THEN [pk |-> getProposerPubkey(r.defSet).pubkey, par |-> NewPartialProposal(it)]
            ELSE NoTarget

\* Item i of the request is resolved to a validator and its partial signature does
\* not verify against this operator's share of that validator (an unknown key included).
FailsVerification(r, i) ==
    LET t == ItemTarget(r, r.items[i]) IN
    t # NoTarget /\ ~SignedByOwnShare(t.pk, t.par)

AnyFailsVerification(r) == \E i \in 1..Len(r.items) : FailsVerification(r, i)

\* Every partial signature a subscriber was called with verifies.
DeliveredAllVerified ==
    \A i \in 1..Len(calls) : \A pk \in DOMAIN calls[i].set :
        SignedByOwnShare(pk, calls[i].set[pk])

\* C1 as stated: for all eleven submission operations of a secure component, only
\* verified partial signatures reach a subscriber, and a request with an item that
\* fails verification returns an error without any subscriber call.
C1_AsClaimed ==
    (~insecureTest /\ req.op \in SubmissionOps) =>
        /\ DeliveredAllVerified
        /\ AnyFailsVerification(req) => (ret.err # Nil /\ calls = <<>>)

\* The registrations before registration i that verify (each was delivered on its own).
RegsDeliveredBefore(r, i) ==
    {j \in 1..(i - 1) : SignedByOwnShare(r.items[j].pubkey, registrationPartial(r.items[j]))}

\* C1 amended: in a secure component every partial signature handed to a subscriber
\* has passed verification against this operator's share.  For every submission
\* operation but SubmitValidatorRegistrations, a request with an item that fails
\* verification returns an error and calls no subscriber.  SubmitValidatorRegistrations
\* verifies and delivers one registration at a time: a failing registration of a
\* cluster key ends the request with an error and nothing of it or after it is
\* delivered, while a registration of a key outside the cluster is skipped silently;
\* with the builder API disabled the whole request is ignored without error.
C1_Verified ==
    (~insecureTest /\ req.op \in SubmissionOps) =>
        /\ DeliveredAllVerified
        /\ (req.op # "SubmitValidatorRegistrations" /\ AnyFailsVerification(req))
              => (ret.err # Nil /\ calls = <<>>)
        /\ (req.op = "SubmitValidatorRegistrations" /\ builderEnabled) =>
              \A i \in 1..Len(req.items) :
                 (/\ req.items[i].pubkey \in PubKeys
                  /\ FailsVerification(req, i)
                  /\ \A j \in 1..(i - 1) : req.items[j].pubkey \in PubKeys
                                             => ~FailsVerification(req, j))
                 => /\ ret.err # Nil
                    /\ \A c \in 1..Len(calls) :
                          \E j \in RegsDeliveredBefore(req, i) :
                             calls[c].set = (req.items[j].pubkey :>
                                                registrationPartial(req.items[j]))

\* A batch of two attestations, the first verifying and the second not, is refused
\* without any subscriber call.
C1_Witness ==
    /\ ~insecureTest
    /\ req.op = "SubmitAttestations"
    /\ Len(req.items) = 2
    /\ ItemTarget(req, req.items[1]) # NoTarget
    /\ ~FailsVerification(req, 1)
    /\ FailsVerification(req, 2)
    /\ ret.err = "signature not verified"
    /\ calls = <<>>

\* The submitted proposal and the DutyDB proposal differ in proposer index, blinded
\* flag, version or hash tree root of the message.
ProposalsDiffer(opts, prop) ==
    \/ opts.idx # prop.idx
    \/ opts.blinded # prop.blinded
    \/ opts.version # prop.version
    \/ HashTreeRoot(opts) # HashTreeRoot(prop)

\* C2: SubmitProposal and SubmitBlindedProposal call a subscriber only when the
\* DutyDB proposal of the slot was obtained and equals the submitted one in proposer
\* index, blinded flag, version and message root; when they differ the request
\* returns an error and no subscriber is called.
C2_ProposalMatchesDuty ==
    req.op \in {"SubmitProposal", "SubmitBlindedProposal"} =>
        /\ calls # <<>> =>
              /\ req.awaited.err = Nil
              /\ ~ProposalsDiffer(req.items[1], req.awaited.data)
        /\ (req.awaited.err = Nil /\ ProposalsDiffer(req.items[1], req.awaited.data))
              => (ret.err # Nil /\ calls = <<>>)

\* A correctly signed proposal that differs from the DutyDB proposal in its body
\* only is refused.
C2_Witness ==
    /\ req.op = "SubmitProposal"
    /\ req.awaited.err = Nil
    /\ req.items[1].idx = req.awaited.data.idx
    /\ req.items[1].blinded = req.awaited.data.blinded
    /\ req.items[1].version = req.awaited.data.version
    /\ req.items[1].body # req.awaited.data.body
    /\ getProposerPubkey(req.defSet).err = Nil
    /\ SignedByOwnShare(getProposerPubkey(req.defSet).pubkey, NewPartialProposal(req.items[1]))
    /\ ret.err = "consensus proposal and VC-submitted one do not match"
    /\ calls = <<>>

DataOps == {"AttestationData", "Proposal", "AggregateAttestation", "SyncCommitteeContribution"}

\* C8: a data-producing operation returns data only when the registered DutyDB await
\* function returned it, and returns exactly that value (a proposal with both v3
\* values set to 1), whatever else the request carries; when the await fails the
\* operation returns an error and no data.
C8_ReturnsAwaitedValue ==
    req.op \in DataOps =>
        /\ ret.data # {} =>
              /\ ret.err = Nil
              /\ req.awaited.err = Nil
              /\ ret.data = IF req.op = "Proposal"
                            THEN {[req.awaited.data EXCEPT !.ConsensusValue = 1,
                                                           !.ExecutionValue = 1]}
                            ELSE {req.awaited.data}
        /\ req.awaited.err # Nil => (ret.err # Nil /\ ret.data = {})

\* A proposal stored with other v3 values is returned with both set to 1.
C8_Witness ==
    /\ req.op = "Proposal"
    /\ req.awaited.err = Nil
    /\ req.awaited.data.ConsensusValue = 7
    /\ req.awaited.data.ExecutionValue = 0
    /\ ret.err = Nil
    /\ \A d \in ret.data : /\ d.ConsensusValue = 1
                           /\ d.ExecutionValue = 1
                           /\ d.body = req.awaited.data.body
    /\ ret.data # {}

\* The request got as far as propDataMatchesDuty: the submitted proposal has a slot,
\* the proposer of the slot is known and DutyDB returned the proposal of the slot.
ReachesMatch(r) ==
    /\ r.op \in {"SubmitProposal", "SubmitBlindedProposal"}
    /\ Supported(r.items[1].version, r.items[1].blinded)
    /\ getProposerPubkey(r.defSet).err = Nil
    /\ r.awaited.err = Nil

\* C31: propDataMatchesDuty accepts every submitted proposal whose proposer index,
\* blinded flag, version and message hash tree root equal those of the DutyDB
\* proposal, for each of the versions phase0 to electra, full and (from bellatrix
\* on) blinded: the request is not refused as a mismatch and goes on to the
\* signature check.  A DutyDB proposal of any other version is refused and no
\* subscriber is called.
C31_MatchingProposalAccepted ==
    ReachesMatch(req) =>
        /\ ~ProposalsDiffer(req.items[1], req.awaited.data)
              => /\ propDataMatchesDuty(req.items[1], req.awaited.data) = Nil
                 /\ ret.err # "consensus proposal and VC-submitted one do not match"
                 /\ SignedByOwnShare(getProposerPubkey(req.defSet).pubkey,
                                     NewPartialProposal(req.items[1]))
                       => calls # <<>>
        /\ req.awaited.data.version \notin Versions
              => /\ propDataMatchesDuty(req.items[1], req.awaited.data) # Nil
                 /\ ret.err = "consensus proposal and VC-submitted one do not match"
                 /\ calls = <<>>

\* A correctly signed blinded electra proposal equal to the DutyDB proposal is
\* accepted and handed to the subscribers.
C31_Witness ==
    /\ ReachesMatch(req)
    /\ req.op = "SubmitBlindedProposal"
    /\ req.items[1].version = "electra"
    /\ req.items[1].blinded
    /\ ~ProposalsDiffer(req.items[1], req.awaited.data)
    /\ ret.err = Nil
    /\ calls # <<>>

\* A DutyDB proposal of an unknown version is refused.
C31_OtherVersionWitness ==
    /\ ReachesMatch(req)
    /\ req.awaited.data.version = "unknown"
    /\ ret.err = "consensus proposal and VC-submitted one do not match"
    /\ calls = <<>>

\* The batch operations and the duty type each delivers.
BatchDutyType ==
    [SubmitAttestations |-> "attester",
     SubmitAggregateAttestations |-> "aggregator",
     SubmitSyncCommitteeMessages |-> "sync_message",
     SubmitSyncCommitteeContributions |-> "sync_contribution",
     AggregateBeaconCommitteeSelections |-> "prepare_aggregator",
     AggregateSyncCommitteeSelections |-> "prepare_sync_contribution"]

\* The items of request r for validator pk in the given slot, by position.
ItemsFor(r, slot, pk) ==
    {i \in 1..Len(r.items) : r.items[i].slot = slot /\ ItemTarget(r, r.items[i]).pk = pk}

\* The validators request r has an item for in the given slot.
SlotKeys(r, slot) == {pk \in AllKeys : ItemsFor(r, slot, pk) # {}}

\* The partial signature of the last item, in request order, for (slot, pk).
LastPartial(r, slot, pk) ==
    LET last == CHOOSE i \in ItemsFor(r, slot, pk) : \A j \in ItemsFor(r, slot, pk) : j <= i
    IN ItemTarget(r, r.items[last]).par

\* The calls made to subscriber s with a duty of the given slot.
CallsFor(s, slot) == {i \in 1..Len(calls) : calls[i].sub = s /\ calls[i].duty.slot = slot}

\* C38: the batch submissions (attestations, aggregates, sync messages, sync
\* contributions and both kinds of selections) are grouped by slot.  No subscriber is
\* called twice for one slot; every call carries the duty of the endpoint's type for
\* its slot and a set with one partial per public key the request names in that
\* slot, which is the partial of the last item for that (slot, public key) in request
\* order, stamped with this operator's share index; and when all items verify and no
\* subscriber fails, every subscriber is called exactly once for every distinct slot
\* of the request.
C38_GroupedBySlot ==
    req.op \in DOMAIN BatchDutyType =>
        /\ \A i \in 1..Len(calls) :
              /\ Cardinality(CallsFor(calls[i].sub, calls[i].duty.slot)) = 1
              /\ calls[i].duty.type = BatchDutyType[req.op]
              /\ DOMAIN calls[i].set = SlotKeys(req, calls[i].duty.slot)
              /\ \A pk \in DOMAIN calls[i].set :
                    /\ calls[i].set[pk] = LastPartial(req, calls[i].duty.slot, pk)
                    /\ calls[i].set[pk].share = ShareIdx
        /\ (calls # <<>> /\ ret.err # "subscriber error") =>
              \A slot \in {req.items[i].slot : i \in 1..Len(req.items)}, s \in 1..NumSubs :
                 Cardinality(CallsFor(s, slot)) = 1

\* Two sync messages of one validator for one slot with different content: every
\* subscriber is called once and gets the second message only.
C38_Witness ==
    /\ req.op = "SubmitSyncCommitteeMessages"
    /\ Len(req.items) = 2
    /\ req.items[1].slot = req.items[2].slot
    /\ req.items[1].valIdx = req.items[2].valIdx
    /\ req.items[1].data # req.items[2].data
    /\ ret.err = Nil
    /\ Len(calls) = NumSubs
    /\ \A i \in 1..Len(calls) :
          \A pk \in DOMAIN calls[i].set : calls[i].set[pk].data = req.items[2].data

\* Two attestations for two slots: every subscriber is called once per slot.
C38_TwoSlotsWitness ==
    /\ req.op = "SubmitAttestations"
    /\ Len(req.items) = 2
    /\ req.items[1].slot # req.items[2].slot
    /\ ret.err = Nil
    /\ Len(calls) = 2 * NumSubs

\* The pre-Electra partial par, delivered for validator pk, is one of an attestation
\* in pk's committee whose single aggregation bit is pk's position in the committee.
AttributedByBits(pk, par) ==
    /\ AttesterDefinitions[pk].CommitteeIndex = par.data.index
    /\ par.data.bits = {AttesterDefinitions[pk].ValidatorCommitteeIndex}

\* C39: SubmitAttestations refuses, with an error and without any subscriber call,
\* every pre-Electra attestation whose aggregation bits do not have exactly one bit
\* set and every Electra attestation without a validator index; and a pre-Electra
\* attestation is delivered only for a validator whose attester definition of the
\* slot has the attestation's committee index and whose position in the committee
\* is the single bit set.
C39_BitsAndAttribution ==
    req.op = "SubmitAttestations" =>
        /\ \A i \in 1..Len(req.items) :
              (\/ /\ req.items[i].version \in PreElectra
                  /\ Cardinality(req.items[i].bits) # 1
               \/ /\ req.items[i].version = "electra"
                  /\ req.items[i].valIdx = NoValIdx)
              => (ret.err # Nil /\ calls = <<>>)
        /\ \A c \in 1..Len(calls) : \A pk \in DOMAIN calls[c].set :
              calls[c].set[pk].data.version \in PreElectra
                 => AttributedByBits(pk, calls[c].set[pk])

\* A pre-Electra attestation whose one bit is the position of no validator of the
\* committee is delivered for the validator with index 0.
C39_ZeroValueWitness ==
    /\ ~insecureTest
    /\ req.op = "SubmitAttestations"
    /\ Len(req.items) = 1
    /\ req.items[1].version \in PreElectra
    /\ req.items[1].bits = {2}
    /\ ret.err = Nil
    /\ calls # <<>>
    /\ \A c \in 1..Len(calls) : DOMAIN calls[c].set = {"A"}

\* The distinct (slot, validator) pairs the selections of request r are for.
SelectionPairs(r) ==
    {<<r.items[i].slot, ItemTarget(r, r.items[i]).pk>> : i \in 1..Len(r.items)}

\* C40: AggregateBeaconCommitteeSelections and AggregateSyncCommitteeSelections hand
\* the verified partial selections to every subscriber, one set per slot, before
\* they wait on AggSigDB: a request that got to waiting, whether the waits answered
\* or one was cancelled, has called every subscriber once for every slot.  A request
\* without error returns exactly the aggregated selection AggSigDB holds for the
\* PrepareAggregator (resp. PrepareSyncContribution) duty of every distinct (slot,
\* validator) submitted, and a request with an error returns no selection.
C40_DeliverThenAwait ==
    req.op \in {"AggregateBeaconCommitteeSelections", "AggregateSyncCommitteeSelections"} =>
        /\ ret.err \in {Nil, "context canceled"} =>
              \A slot \in {req.items[i].slot : i \in 1..Len(req.items)}, s \in 1..NumSubs :
                 Cardinality(CallsFor(s, slot)) = 1
        /\ ret.err = Nil =>
              ret.data = {AggregatedSelection(Duty(p[1], BatchDutyType[req.op]), p[2]) :
                             p \in SelectionPairs(req)}
        /\ ret.err # Nil => ret.data = {}

\* Selections of two validators for one slot are delivered as one set and answered
\* with the two aggregated selections.
C40_Witness ==
    /\ req.op = "AggregateBeaconCommitteeSelections"
    /\ Len(req.items) = 2
    /\ req.items[1].slot = req.items[2].slot
    /\ req.items[1].valIdx # req.items[2].valIdx
    /\ ret.err = Nil
    /\ Cardinality(ret.data) = 2
    /\ Len(calls) = NumSubs

\* A cancelled wait after the delivery of two slots: every subscriber has been called
\* for both slots and nothing is returned.
C40_CancelledWitness ==
    /\ req.op = "AggregateSyncCommitteeSelections"
    /\ Len(req.items) = 2
    /\ req.items[1].slot # req.items[2].slot
    /\ ret.err = "context canceled"
    /\ ret.data = {}
    /\ Len(calls) = 2 * NumSubs

-----------------------------------------------------------------------------
(* DutyDB and AggSigDB: keyed storage with blocking reads (spec 4.4, 4.8,   *)
(* design note "Blocking await + cancellation"). One store of this shape    *)
(* stands for either database: DutyDB keys are duties, AggSigDB keys are    *)
(* (duty, pubkey) pairs.                                                    *)

NumKeys == 2
NumCallers == 3

StoreKeys == 1..NumKeys
StoreValues == {"v1", "v2"}
Callers == 1..NumCallers

NoStore == [key |-> 0, val |-> Nil, res |-> "none"]
IdleAwait == [st |-> "idle", key |-> 0, val |-> Nil]

\* Store under the exclusive lock of the map: a first value is stored and
\* the waiters of the key are notified under that same lock; an equal value
\* is a no-op; an unequal value is a fatal invariant violation: the component
\* aborts.
StoreOverwrites(key, value) ==
    /\ ~aborted
    /\ stored' = [stored EXCEPT ![key] = value]
    /\ awaits' = [c \in Callers |->
                    IF c \in waiting[key]
                    THEN [st |-> "returned", key |-> key, val |-> value]
                    ELSE awaits[c]]
    /\ waiting' = [waiting EXCEPT ![key] = {}]
    /\ lastStore' = [key |-> key, val |-> value,
                     res |-> IF stored[key] = value THEN "noop" ELSE "stored"]
    /\ UNCHANGED <<aborted, nonStoreVars>>

Store(key, value) ==
    /\ ~aborted
    /\ IF stored[key] = Nil
       THEN /\ stored' = [stored EXCEPT ![key] = value]
            /\ awaits' = [c \in Callers |->
                            IF c \in waiting[key]
                            THEN [st |-> "returned", key |-> key, val |-> value]
                            ELSE awaits[c]]
            /\ waiting' = [waiting EXCEPT ![key] = {}]
            /\ lastStore' = [key |-> key, val |-> value, res |-> "stored"]
            /\ UNCHANGED aborted
       ELSE IF stored[key] = value
       THEN /\ lastStore' = [key |-> key, val |-> value, res |-> "noop"]
            /\ UNCHANGED <<stored, awaits, waiting, aborted>>
       ELSE /\ lastStore' = [key |-> key, val |-> value, res |-> "fatal"]
            /\ aborted' = TRUE
            /\ UNCHANGED <<stored, awaits, waiting>>
    /\ UNCHANGED <<nonStoreVars>>

\* Await takes the lock of the map: it returns the stored value at once, or
\* registers the caller as a waiter of the key and blocks.
Await(c, key) ==
    /\ ~aborted
    /\ awaits[c].st = "idle"
    /\ IF stored[key] # Nil
       THEN /\ awaits' = [awaits EXCEPT ![c] =
                            [st |-> "returned", key |-> key, val |-> stored[key]]]
            /\ UNCHANGED waiting
       ELSE /\ awaits' = [awaits EXCEPT ![c] =
                            [st |-> "blocked", key |-> key, val |-> Nil]]
            /\ waiting' = [waiting EXCEPT ![key] = @ \cup {c}]
    /\ UNCHANGED <<stored, aborted, lastStore, nonStoreVars>>

\* The context of a blocked Await is cancelled: the waiter is removed and the
\* Await returns a cancelled error.
CancelKeepsWaiter(c) ==
    /\ awaits[c].st = "blocked"
    /\ awaits' = [awaits EXCEPT ![c] = [@ EXCEPT !.st = "cancelled"]]
    /\ UNCHANGED <<waiting, stored, aborted, lastStore, nonStoreVars>>

Cancel(c) ==
    /\ awaits[c].st = "blocked"
    /\ waiting' = [waiting EXCEPT ![awaits[c].key] = @ \ {c}]
    /\ awaits' = [awaits EXCEPT ![c] = [@ EXCEPT !.st = "cancelled"]]
    /\ UNCHANGED <<stored, aborted, lastStore, nonStoreVars>>

\* The caller takes the result of its Await and is free to await again.
AwaitDone(c) ==
    /\ awaits[c].st \in {"returned", "cancelled"}
    /\ awaits' = [awaits EXCEPT ![c] = IdleAwait]
    /\ UNCHANGED <<stored, waiting, aborted, lastStore, nonStoreVars>>

InitStore ==
    /\ stored = [k \in StoreKeys |-> Nil]
    /\ waiting = [k \in StoreKeys |-> {}]
    /\ awaits = [c \in Callers |-> IdleAwait]
    /\ aborted = FALSE
    /\ lastStore = NoStore

NextStore ==
    \/ \E k \in StoreKeys, v \in StoreValues : Store(k, v)
    \/ \E c \in Callers, k \in StoreKeys : Await(c, k)
    \/ \E c \in Callers : Cancel(c)
    \/ \E c \in Callers : AwaitDone(c)

-----------------------------------------------------------------------------
(* Claims about DutyDB / AggSigDB (SpecStore).                              *)

Registered(c) == \E k \in StoreKeys : c \in waiting[k]

\* C9: a blocked Await is a registered waiter of a key that holds no value
\* (no lost wake-up); every registered waiter is a caller blocked on that key
\* and a cancelled Await is registered nowhere (no leaked waiter); an Await
\* that returned holds the value stored for its key, so repeated Awaits see
\* the same value; an Await that starts when the key is stored returns the
\* value in that very step, and a blocked Await leaves only by the Store of
\* its key or by cancellation.
C9_AwaitNoLostWakeupNoLeak ==
    [][ /\ \A c \in Callers :
             /\ awaits'[c].st = "blocked" =>
                  /\ stored'[awaits'[c].key] = Nil
                  /\ c \in waiting'[awaits'[c].key]
             /\ awaits'[c].st = "returned" =>
                  /\ stored'[awaits'[c].key] = awaits'[c].val
                  /\ awaits'[c].val # Nil
             /\ awaits'[c].st \in {"idle", "returned", "cancelled"} => ~Registered(c)'
             /\ awaits[c].st = "idle" /\ awaits'[c].st # "idle" =>
                  IF stored[awaits'[c].key] # Nil
                  THEN awaits'[c].st = "returned"
                  ELSE awaits'[c].st = "blocked"
             /\ awaits[c].st = "blocked" /\ awaits'[c].st = "returned" =>
                  /\ stored[awaits[c].key] = Nil
                  /\ stored'[awaits[c].key] # Nil
                  /\ awaits'[c].key = awaits[c].key
             /\ awaits[c].st = "blocked" =>
                  awaits'[c].st \in {"blocked", "returned", "cancelled"}
        /\ \A k \in StoreKeys : \A c \in waiting'[k] :
             awaits'[c].st = "blocked" /\ awaits'[c].key = k
      ]_vars

\* Of two Awaits on one key, one was cancelled while blocked and is no longer
\* a waiter, the other returned the value stored for the key.
C9_Witness ==
    \E c1, c2 \in Callers :
        /\ c1 # c2
        /\ awaits[c1].st = "cancelled"
        /\ awaits[c2].st = "returned"
        /\ awaits[c1].key = awaits[c2].key
        /\ waiting[awaits[c1].key] = {}
        /\ stored[awaits[c2].key] = awaits[c2].val

-----------------------------------------------------------------------------
(* ParSigDB, SigAgg, AggSigDB and Broadcaster of one operator, for one       *)
(* (duty, pubkey) (spec 3, 4.6 to 4.9, 5 "Timeouts", 7).                     *)

NumOps == 4
MaxAttempts == 3

\* The cluster's threshold: 3 in a cluster of 4.
Threshold == (2 * NumOps + 2) \div 3

Shares == 1..NumOps
Payloads == {"p1", "p2"}
DutyTypes == {"attester", "proposer"}
NoSigs == [s \in Shares |-> Nil]
NoInsert == [share |-> 0, payload |-> Nil, res |-> "none"]

\* The shares that have a partial in the set.
Signers(sigs) == {s \in Shares : sigs[s] # Nil}

\* The states of a duty, in their order; Failed is final like Done.
DutyStates == <<"Pending", "Fetched", "Decided", "PartialsCollected", "Aggregated",
                "Broadcast", "Done">>

Rank(state) == CHOOSE i \in 1..Len(DutyStates) : DutyStates[i] = state

\* The duty's state after an event that takes it to state `to`: forward
\* only, and never out of Done or Failed.
advanceTo(state, to) == to

advance(state, to) ==
    IF state \in {"Done", "Failed"} THEN state
    ELSE IF to = "Failed" THEN to
    ELSE IF Rank(to) > Rank(state) THEN to
    ELSE state

\* Scheduler and Fetcher: the duty's unsigned data is fetched.
Fetch ==
    /\ ~expired
    /\ progress = "pending"
    /\ progress' = "fetched"
    /\ dutyState' = advance(dutyState, "Fetched")
    /\ UNCHANGED <<dutyType, parsigs, doubleSigns, exBroadcasts, forwards, sigaggIn,
                   aggCount, aggErr, aggsigdb, bcPending, bcAttempts, bnReceived,
                   expired, lastInsert, nonPipeVars>>

\* Consensus decides the duty's data, DutyDB stores it.
Decide ==
    /\ ~expired
    /\ progress = "fetched"
    /\ progress' = "decided"
    /\ dutyState' = advance(dutyState, "Decided")
    /\ UNCHANGED <<dutyType, parsigs, doubleSigns, exBroadcasts, forwards, sigaggIn,
                   aggCount, aggErr, aggsigdb, bcPending, bcAttempts, bnReceived,
                   expired, lastInsert, nonPipeVars>>

\* What ParSigDB does with a partial of a share: past the deadline the duty
\* has no state and takes none; a first partial is stored; one equal to the
\* stored partial is a duplicate; a distinct one is a double sign.
insertResultOverwrites(share, payload) ==
    IF expired THEN "expired"
    ELSE IF parsigs[share] = payload THEN "duplicate"
    ELSE "stored"

insertResult(share, payload) ==
    IF expired THEN "expired"
    ELSE IF parsigs[share] = Nil THEN "stored"
    ELSE IF parsigs[share] = payload THEN "duplicate"
    ELSE "double-sign"

\* The insert that makes the number of distinct partials reach the threshold.
atLeastThreshold(sigs) == Cardinality(Signers(sigs)) >= Threshold

reachesThreshold(sigs) == Cardinality(Signers(sigs)) = Threshold

\* ParSigDB insert, from the local Validator-API (this operator's share) or
\* from ParSigEx (a peer's share).
Insert(share, payload) ==
    LET res == insertResult(share, payload)
        sigs == [parsigs EXCEPT ![share] = payload]
    IN /\ lastInsert' = [share |-> share, payload |-> payload, res |-> res]
       /\ IF res = "stored"
          THEN /\ parsigs' = sigs
               /\ exBroadcasts' = IF share = ShareIdx THEN exBroadcasts + 1
                                  ELSE exBroadcasts
               /\ IF reachesThreshold(sigs)
                  THEN /\ forwards' = forwards + 1
                       /\ sigaggIn' = sigs
                       /\ dutyState' = advance(dutyState, "PartialsCollected")
                  ELSE UNCHANGED <<forwards, sigaggIn, dutyState>>
               /\ UNCHANGED doubleSigns
          ELSE /\ doubleSigns' = IF res = "double-sign" THEN doubleSigns \cup {share}
                                 ELSE doubleSigns
               /\ UNCHANGED <<parsigs, exBroadcasts, forwards, sigaggIn, dutyState>>
       /\ UNCHANGED <<dutyType, progress, aggCount, aggErr, aggsigdb, bcPending,
                      bcAttempts, bnReceived, expired, nonPipeVars>>

\* The payload of the partial of the lowest share of the set.
FirstPayload(sigs) ==
    LET low == CHOOSE s \in Signers(sigs) : \A t \in Signers(sigs) : s <= t
    IN sigs[low]

\* SigAgg on a forwarded set: partials over one payload combine into the
\* group signature over that payload; partials that disagree on the payload
\* are refused.
aggregateFirstPayload(sigs) == [err |-> Nil, payload |-> FirstPayload(sigs)]

aggregate(sigs) ==
    IF \A s, t \in Signers(sigs) : sigs[s] = sigs[t]
    THEN [err |-> Nil, payload |-> FirstPayload(sigs)]
    ELSE [err |-> "conflicting signatures", payload |-> Nil]

\* SigAgg handles the set ParSigDB forwarded: it writes the aggregate to
\* AggSigDB (whose Store keeps a value it already holds), which notifies the
\* Broadcaster of a new entry; on an error it drops the duty.
Aggregate ==
    /\ sigaggIn # NoSigs
    /\ LET agg == aggregate(sigaggIn)
       IN IF agg.err = Nil
          THEN /\ aggCount' = aggCount + 1
               /\ aggsigdb' = IF aggsigdb = Nil THEN agg.payload ELSE aggsigdb
               /\ bcPending' = (bcPending \/ aggsigdb = Nil)
               /\ dutyState' = advance(dutyState, "Aggregated")
               /\ UNCHANGED aggErr
          ELSE /\ aggErr' = agg.err
               /\ dutyState' = advance(dutyState, "Failed")
               /\ UNCHANGED <<aggCount, aggsigdb, bcPending>>
    /\ sigaggIn' = NoSigs
    /\ UNCHANGED <<dutyType, progress, parsigs, doubleSigns, exBroadcasts, forwards,
                   bcAttempts, bnReceived, expired, lastInsert, nonPipeVars>>

\* The Broadcaster submits the signed object of a new AggSigDB entry to the
\* beacon node; a failed submission (the beacon node did not take the object)
\* is retried within the deadline.
BroadcastKeepsPending(ok) ==
    /\ bcPending
    /\ ~expired
    /\ bcAttempts < MaxAttempts
    /\ bcAttempts' = bcAttempts + 1
    /\ IF ok
       THEN /\ bnReceived' = Append(bnReceived, [type |-> dutyType, payload |-> aggsigdb])
            /\ dutyState' = advance(advance(dutyState, "Broadcast"), "Done")
       ELSE /\ dutyState' = advance(dutyState, "Broadcast")
            /\ UNCHANGED bnReceived
    /\ UNCHANGED <<bcPending, dutyType, progress, parsigs, doubleSigns, exBroadcasts,
                   forwards, sigaggIn, aggCount, aggErr, aggsigdb, expired, lastInsert,
                   nonPipeVars>>

Broadcast(ok) ==
    /\ bcPending
    /\ ~expired
    /\ bcAttempts < MaxAttempts
    /\ bcAttempts' = bcAttempts + 1
    /\ IF ok
       THEN /\ bnReceived' = Append(bnReceived, [type |-> dutyType, payload |-> aggsigdb])
            /\ bcPending' = FALSE
            /\ dutyState' = advance(advance(dutyState, "Broadcast"), "Done")
       ELSE /\ dutyState' = advance(dutyState, "Broadcast")
            /\ UNCHANGED <<bnReceived, bcPending>>
    /\ UNCHANGED <<dutyType, progress, parsigs, doubleSigns, exBroadcasts, forwards,
                   sigaggIn, aggCount, aggErr, aggsigdb, expired, lastInsert, nonPipeVars>>

\* The duty's deadline passes: its partial state and its pending work are
\* dropped; a duty that is not done has failed.
Expire ==
    /\ ~expired
    /\ expired' = TRUE
    /\ parsigs' = NoSigs
    /\ sigaggIn' = NoSigs
    /\ bcPending' = FALSE
    /\ dutyState' = advance(dutyState, "Failed")
    /\ UNCHANGED <<dutyType, progress, doubleSigns, exBroadcasts, forwards, aggCount,
                   aggErr, aggsigdb, bcAttempts, bnReceived, lastInsert, nonPipeVars>>

InitPipe ==
    /\ dutyType \in DutyTypes
    /\ progress = "pending"
    /\ dutyState = "Pending"
    /\ parsigs = NoSigs
    /\ doubleSigns = {}
    /\ exBroadcasts = 0
    /\ forwards = 0
    /\ sigaggIn = NoSigs
    /\ aggCount = 0
    /\ aggErr = Nil
    /\ aggsigdb = Nil
    /\ bcPending = FALSE
    /\ bcAttempts = 0
    /\ bnReceived = <<>>
    /\ expired = FALSE
    /\ lastInsert = NoInsert

NextPipe ==
    \/ Fetch
    \/ Decide
    \/ \E share \in Shares, payload \in Payloads : Insert(share, payload)
    \/ Aggregate
    \/ \E ok \in BOOLEAN : Broadcast(ok)
    \/ Expire

-----------------------------------------------------------------------------
(* Claims about ParSigDB, SigAgg, AggSigDB and Broadcaster (SpecPipe).      *)

C4_ForwardOnceAtThreshold ==
    [][ /\ forwards' <= 1
        /\ forwards' # forwards =>
             /\ lastInsert'.res = "stored"
             /\ Cardinality(Signers(parsigs)) = Threshold - 1
             /\ Cardinality(Signers(parsigs')) = Threshold
             /\ sigaggIn' = parsigs'
        /\ sigaggIn' # NoSigs => Cardinality(Signers(sigaggIn')) = Threshold
        /\ (~expired' /\ Cardinality(Signers(parsigs')) >= Threshold) => forwards' = 1
        /\ forwards' = 0 =>
             /\ sigaggIn' = NoSigs
             /\ aggCount' = 0
             /\ aggsigdb' = Nil
             /\ bnReceived' = <<>>
        /\ expired' =>
             /\ parsigs' = NoSigs
             /\ sigaggIn' = NoSigs
             /\ UNCHANGED <<forwards, aggCount, aggsigdb, bnReceived>>
      ]_vars

\* All shares' partials are in, one forward was made and aggregated.
C4_Witness ==
    /\ forwards = 1
    /\ Signers(parsigs) = Shares
    /\ aggsigdb # Nil

\* The deadline passed with fewer partials than the threshold: a later
\* partial is refused and nothing was aggregated or submitted.
C4_DeadlineWitness ==
    /\ expired
    /\ exBroadcasts = 1
    /\ forwards = 0
    /\ lastInsert.res = "expired"
    /\ aggsigdb = Nil
    /\ bnReceived = <<>>

\* C5: a stored partial stays the partial of its share until the deadline;
\* an insert equal to the stored partial changes nothing; a distinct partial
\* of the same share is logged as a double sign and changes nothing else, so
\* it enters no set that is forwarded or aggregated; the local set is
\* broadcast at most once.
C5_OnePartialPerShare ==
    [][ /\ \A s \in Shares :
             (parsigs[s] # Nil /\ ~expired') => parsigs'[s] = parsigs[s]
        /\ exBroadcasts' <= 1
        /\ (lastInsert' # lastInsert /\ lastInsert'.res = "duplicate") =>
             /\ parsigs[lastInsert'.share] = lastInsert'.payload
             /\ UNCHANGED <<parsigs, doubleSigns, exBroadcasts, forwards, sigaggIn,
                            aggCount, aggErr, aggsigdb, bnReceived, dutyState>>
        /\ (lastInsert' # lastInsert /\ lastInsert'.res = "double-sign") =>
             /\ parsigs[lastInsert'.share] \in Payloads \ {lastInsert'.payload}
             /\ lastInsert'.share \in doubleSigns'
             /\ UNCHANGED <<parsigs, exBroadcasts, forwards, sigaggIn, aggCount,
                            aggErr, aggsigdb, bnReceived, dutyState>>
        /\ (lastInsert' # lastInsert /\ lastInsert'.res = "stored") =>
             /\ parsigs[lastInsert'.share] = Nil
             /\ parsigs'[lastInsert'.share] = lastInsert'.payload
             /\ exBroadcasts' = exBroadcasts
                                 + (IF lastInsert'.share = ShareIdx THEN 1 ELSE 0)
      ]_vars

\* The local share's second, distinct partial was refused as a double sign:
\* the first one is still stored and was broadcast once.
C5_Witness ==
    /\ lastInsert.res = "double-sign"
    /\ lastInsert.share = ShareIdx
    /\ ShareIdx \in doubleSigns
    /\ parsigs[ShareIdx] \in Payloads \ {lastInsert.payload}
    /\ exBroadcasts = 1

\* C6: SigAgg writes an aggregated signature to AggSigDB only from a set of
\* threshold partials that all carry its payload; a set of partials over
\* different payloads gives the conflicting-signatures error, nothing is
\* written to AggSigDB, nothing reaches the beacon node and the duty fails.
C6_NoAggregateOverConflict ==
    [][ /\ aggsigdb' # aggsigdb =>
             /\ Cardinality(Signers(sigaggIn)) >= Threshold
             /\ \A s \in Signers(sigaggIn) : sigaggIn[s] = aggsigdb'
        /\ (sigaggIn # NoSigs /\ sigaggIn' = NoSigs /\ expired' = expired
              /\ \E s, t \in Signers(sigaggIn) : sigaggIn[s] # sigaggIn[t]) =>
             /\ aggErr' = "conflicting signatures"
             /\ UNCHANGED <<aggsigdb, aggCount, bnReceived, bcPending>>
        /\ aggErr' # Nil =>
             /\ aggErr' = "conflicting signatures"
             /\ aggsigdb' = Nil
             /\ aggCount' = 0
             /\ bnReceived' = <<>>
             /\ ~bcPending'
             /\ dutyState' = "Failed"
      ]_vars

\* Threshold partials over two payloads were refused; the last share's
\* partial came in afterwards and nothing was aggregated.
C6_Witness ==
    /\ aggErr = "conflicting signatures"
    /\ Signers(parsigs) = Shares
    /\ \E s, t \in Shares : parsigs[s] # parsigs[t]
    /\ aggsigdb = Nil
    /\ dutyState = "Failed"

-----------------------------------------------------------------------------
(* Subscribers of the Fetcher and of the Validator-API component: the data   *)
(* sets are objects, a subscriber is handed a reference and may write        *)
(* through it.                                                               *)

SubIds == 1..NumSubs

\* Where a delivery fails: at no subscriber, or at the clone for, or in the
\* call of, the i-th subscriber.
NoFail == [at |-> 0, what |-> "none"]
Fails(subs) == {NoFail} \cup [at : 1..Len(subs), what : {"clone", "sub"}]

\* UnsignedDataSet.Clone / ParSignedDataSet.Clone: a new object that holds a
\* copy of the set.
CloneShared(objs, ref) == [objs |-> objs, ref |-> ref]

CloneRef(objs, ref) ==
    LET new == Cardinality(DOMAIN objs)
    IN [objs |-> objs @@ (new :> objs[ref]), ref |-> new]

\* What a subscriber leaves of the set it was handed.
Mutated(set, fn) ==
    [k \in (DOMAIN set) \cup {"mutated"} |-> IF k = "mutated" THEN fn ELSE set[k]]

\* The error a subscriber answers with when it fails: its own.
SubscriberError(fn) == "subscriber error " \o ToString(fn)

\* A subscriber called with the set behind ref: it reads the set, writes to
\* it, and answers.
subscriber(objs, fn, duty, ref, failed) ==
    [objs |-> [objs EXCEPT ![ref] = Mutated(@, fn)],
     call |-> [sub |-> fn, duty |-> duty, set |-> objs[ref]],
     err  |-> IF failed THEN SubscriberError(fn) ELSE Nil]

\* A mutant: the delivery goes on after a subscriber's error and returns the first
\* error once every subscriber was called.
RECURSIVE fetcherDeliverAll(_, _, _, _, _, _)
fetcherDeliverAll(subs, i, objs, duty, ref, fail) ==
    IF i > Len(subs) THEN [calls |-> <<>>, err |-> Nil, objs |-> objs]
    ELSE IF fail.at = i /\ fail.what = "clone"
    THEN [calls |-> <<>>, err |-> "clone error", objs |-> objs]
    ELSE LET c == CloneRef(objs, ref)
             r == subscriber(c.objs, subs[i], duty, c.ref, fail.at = i)
             rest == fetcherDeliverAll(subs, i + 1, r.objs, duty, ref, fail)
         IN [calls |-> <<r.call>> \o rest.calls,
             err |-> IF r.err # Nil THEN r.err ELSE rest.err,
             objs |-> rest.objs]

\* Fetch, lines 90 to 101: each subscriber in turn gets a clone of the
\* unsigned set; the first error ends the delivery.
RECURSIVE fetcherDeliver(_, _, _, _, _, _)
fetcherDeliver(subs, i, objs, duty, ref, fail) ==
    IF i > Len(subs) THEN [calls |-> <<>>, err |-> Nil, objs |-> objs]
    ELSE IF fail.at = i /\ fail.what = "clone"
    THEN [calls |-> <<>>, err |-> "clone error", objs |-> objs]
    ELSE LET c == CloneRef(objs, ref)
             r == subscriber(c.objs, subs[i], duty, c.ref, fail.at = i)
         IN IF r.err # Nil THEN [calls |-> <<r.call>>, err |-> r.err, objs |-> r.objs]
            ELSE LET rest == fetcherDeliver(subs, i + 1, r.objs, duty, ref, fail)
                 IN [calls |-> <<r.call>> \o rest.calls, err |-> rest.err,
                     objs |-> rest.objs]

\* The function Component.Subscribe registers for fn: it hands fn a clone of
\* the set it is called with.
wrapper(objs, fn, duty, ref, fail, i) ==
    IF fail.at = i /\ fail.what = "clone"
    THEN [objs |-> objs, call |-> <<>>, err |-> "clone error"]
    ELSE LET c == CloneRef(objs, ref)
             r == subscriber(c.objs, fn, duty, c.ref, fail.at = i)
         IN [objs |-> r.objs, call |-> <<r.call>>, err |-> r.err]

\* for _, sub := range c.subs { err := sub(ctx, duty, set); ... }, the subs
\* being the registered wrappers.
RECURSIVE vapiDeliver(_, _, _, _, _, _)
vapiDeliver(subs, i, objs, duty, ref, fail) ==
    IF i > Len(subs) THEN [calls |-> <<>>, err |-> Nil, objs |-> objs]
    ELSE LET r == wrapper(objs, subs[i], duty, ref, fail, i)
         IN IF r.err # Nil THEN [calls |-> r.call, err |-> r.err, objs |-> r.objs]
            ELSE LET rest == vapiDeliver(subs, i + 1, r.objs, duty, ref, fail)
                 IN [calls |-> r.call \o rest.calls, err |-> rest.err,
                     objs |-> rest.objs]

-----------------------------------------------------------------------------
(* Fetcher (core/fetcher/fetcher.go). A Fetch runs in steps: one per         *)
(* validator of the definition set, then the delivery to the subscribers.    *)
(* The beacon node, AggSigDB and DutyDB answer each query as they please.    *)

FetchDutyTypes == {"proposer", "attester", "builder_proposer", "aggregator",
                   "sync_contribution", "randao"}

NoDuty == [slot |-> 0, type |-> "none"]
NoFetch == [duty |-> NoDuty, defSet |-> <<>>, order |-> <<>>]

\* The committees of a slot and their lengths.
CommitteeLength(commIdx) == 16 * (commIdx + 1)

\* core.AttesterDefinition of a validator in committee commIdx, and a
\* definition of another type.
AttesterDefinition(commIdx) ==
    [kind |-> "attester", commIdx |-> commIdx, commLen |-> CommitteeLength(commIdx)]

OtherDefinition == [kind |-> "proposer", commIdx |-> 0, commLen |-> 0]

Definitions == {AttesterDefinition(c) : c \in {0, 1}} \cup {OtherDefinition}

\* core.DutyDefinitionSet: definitions by validator.
DefinitionSets == UNION {[keys -> Definitions] : keys \in SUBSET PubKeys}

\* Errors after which the Scheduler fetches the duty again.
Retryable == {"aggregate attestation not found by root (retryable)",
              "sync committee contribution not found by root (retryable)"}

\* One query and its answer.
Query(api, slot, pk, arg, ans) ==
    [api |-> api, slot |-> slot, pk |-> pk, arg |-> arg, ans |-> ans]

\* The outcome of one pass of a loop: the cache and resp after it, the
\* queries it made, and the error it returned with (Nil: none).
Pass(cache, resp, queries, err) ==
    [cache |-> cache, resp |-> resp, queries |-> queries, err |-> err]

\* resp[pubkey] = data
Put(resp, pubkey, data) ==
    [k \in (DOMAIN resp) \cup {pubkey} |-> IF k = pubkey THEN data ELSE resp[k]]

\* What the environment may answer.
BNData == {"x", "y"}
BNAnswers == {"err", "nil"} \cup BNData

\* The beacon node answers no two requests of a Fetch with the same data: the
\* data it may answer with in the pass of a validator.
DataFor(pubkey) == IF pubkey = "A" THEN "x" ELSE "y"
Proofs == {0, 1}
BeaconCommitteeSelections == [kind : {"beacon"}, subcomm : {0}, proof : Proofs]
SyncCommitteeSelections == [kind : {"sync"}, subcomm : {0, 1}, proof : Proofs]
NoSelection == [kind |-> "none", subcomm |-> 0, proof |-> 0]
ErrSelection == [kind |-> "err", subcomm |-> 0, proof |-> 0]

\* The answers one pass of the loop of a duty of the given type may consume:
\* sel and msg from AggSigDB, spec the failure of the beacon node's spec
\* endpoint, att from DutyDB, bn from the beacon node.
Answers(type) ==
    CASE type = "attester" ->
           [sel : {NoSelection}, spec : {FALSE}, msg : {"none"}, att : {"none"},
            bn : BNAnswers]
      [] type = "aggregator" ->
           [sel : {ErrSelection, [kind |-> "sync", subcomm |-> 0, proof |-> 0]}
                  \cup BeaconCommitteeSelections,
            spec : BOOLEAN, msg : {"none"}, att : {"err", "data"}, bn : BNAnswers]
      [] type = "proposer" ->
           [sel : {NoSelection}, spec : {FALSE}, msg : {"err"} \cup Roots, att : {"none"},
            bn : {"err", "bad"} \cup BNData]
      [] type = "sync_contribution" ->
           [sel : {ErrSelection, [kind |-> "beacon", subcomm |-> 0, proof |-> 0]}
                  \cup SyncCommitteeSelections,
            spec : BOOLEAN, msg : {"err", "invalid"} \cup Roots, att : {"none"},
            bn : BNAnswers]
      [] OTHER -> {}

\* The committee index an attestation data request is made for.
commIdxZeroSinceElectra(slot, attDuty) ==
    IF slot >= electraSlot THEN 0 ELSE attDuty.commIdx

commIdxOf(slot, attDuty) == attDuty.commIdx

\* One pass of the loop of fetchAttesterData.
fetchAttesterData(slot, pubkey, def, cache, resp, ans) ==
    IF def.kind # "attester"
    THEN Pass(cache, resp, <<>>, "invalid attester definition")
    ELSE LET commIdx == commIdxOf(slot, def)
         IN IF commIdx \in DOMAIN cache
            THEN Pass(cache, Put(resp, pubkey, [data |-> cache[commIdx], duty |-> def]),
                      <<>>, Nil)
            ELSE LET q == <<Query("AttestationData", slot, pubkey, commIdx, ans.bn)>>
                 IN CASE ans.bn = "err" -> Pass(cache, resp, q, "beacon node error")
                      [] ans.bn = "nil" ->
                           Pass(cache, resp, q, "attestation data cannot be nil")
                      [] OTHER ->
                           Pass(Put(cache, commIdx, ans.bn),
                                Put(resp, pubkey, [data |-> ans.bn, duty |-> def]),
                                q, Nil)

\* eth2exp.IsAttAggregator: the selection proof, read as a number, is a
\* multiple of the committee's modulo.
TargetAggregatorsPerCommittee == 16

AggregatorModulo(commLen) ==
    IF commLen \div TargetAggregatorsPerCommittee > 1
    THEN commLen \div TargetAggregatorsPerCommittee ELSE 1

IsAttAggregator(commLen, proof) == proof % AggregatorModulo(commLen) = 0

\* ok, err = eth2exp.IsAttAggregator(...); else if !ok { continue }
notSelectedNever(attDef, selection) == FALSE

notSelected(attDef, selection) == ~IsAttAggregator(attDef.commLen, selection.proof)

\* attData.HashTreeRoot()
attDataRoot(slot, commIdx) == <<"root", slot, commIdx>>

\* eth2Resp.Data of the beacon node's answer.
respDataNeverNil(ans) == IF ans.bn = "nil" THEN "x" ELSE ans.bn

respData(ans) == ans.bn

\* One pass of the loop of fetchAggregatorData.
fetchAggregatorData(slot, pubkey, def, cache, resp, ans) ==
    IF def.kind # "attester"
    THEN Pass(cache, resp, <<>>, "invalid attester definition")
    ELSE LET q1 == <<Query("AggSigDB", slot, pubkey, "prepare_aggregator", ans.sel)>>
             q2 == q1 \o <<Query("DutyDB", slot, pubkey, def.commIdx, ans.att)>>
             q3 == q2 \o <<Query("AggregateAttestation", slot, pubkey,
                                 <<def.commIdx, attDataRoot(slot, def.commIdx)>>, ans.bn)>>
         IN CASE ans.sel.kind = "err" -> Pass(cache, resp, q1, "aggsigdb error")
              [] ans.sel.kind \notin {"err", "beacon"} ->
                   Pass(cache, resp, q1, "invalid beacon committee selection")
              [] OTHER ->
                   IF ans.spec THEN Pass(cache, resp, q1, "beacon node error")
                   ELSE IF notSelected(def, ans.sel)
                   THEN Pass(cache, resp, q1, Nil)
                   ELSE IF def.commIdx \in DOMAIN cache
                   THEN Pass(cache, Put(resp, pubkey, cache[def.commIdx]), q1, Nil)
                   ELSE IF ans.att = "err" THEN Pass(cache, resp, q2, "dutydb error")
                   ELSE IF ans.bn = "err" THEN Pass(cache, resp, q3, "beacon node error")
                   ELSE IF respData(ans) = "nil"
                   THEN Pass(cache, resp, q3,
                             "aggregate attestation not found by root (retryable)")
                   ELSE Pass(Put(cache, def.commIdx, ans.bn), Put(resp, pubkey, ans.bn),
                             q3, Nil)

\* BuilderBoostFactor of a proposal request.
BuilderBoostFactor == IF fetcherBuilder THEN "math.MaxUint64" ELSE "0"

\* The randao reveal of a proposal request.
randaoFixed(randaoData) == "r1"

randaoOf(randaoData) == randaoData

\* One pass of the loop of fetchProposerData.
fetchProposerData(slot, pubkey, def, cache, resp, ans) ==
    LET q1 == <<Query("AggSigDB", slot, pubkey, "randao", ans.msg)>>
        q2 == q1 \o <<Query("Proposal", slot, pubkey,
                            [randao |-> randaoOf(ans.msg), graffiti |-> pubkey,
                             bbf |-> BuilderBoostFactor], ans.bn)>>
    IN CASE ans.msg = "err" -> Pass(cache, resp, q1, "aggsigdb error")
         [] ans.msg # "err" /\ ans.bn = "err" -> Pass(cache, resp, q2, "beacon node error")
         [] ans.msg # "err" /\ ans.bn = "bad" -> Pass(cache, resp, q2, "new proposal")
         [] OTHER -> Pass(cache, Put(resp, pubkey, ans.bn), q2, Nil)

\* eth2exp.IsSyncCommAggregator: the selection proof, read as a number, is a
\* multiple of the sync committee's modulo.
SyncModulo == 2

IsSyncCommAggregator(proof) == proof % SyncModulo = 0

\* subcommIdx := uint64(selection.SubcommitteeIndex)
subcommIdxZero(selection) == 0

subcommIdx(selection) == selection.subcomm

\* One pass of the loop of fetchContributionData.
fetchContributionData(slot, pubkey, def, cache, resp, ans) ==
    LET q1 == <<Query("AggSigDB", slot, pubkey, "prepare_sync_contribution", ans.sel)>>
        q2 == q1 \o <<Query("AggSigDB", slot, pubkey, "sync_message", ans.msg)>>
        q3 == q2 \o <<Query("SyncCommitteeContribution", slot, pubkey,
                            <<subcommIdx(ans.sel), ans.msg>>, ans.bn)>>
    IN CASE ans.sel.kind = "err" -> Pass(cache, resp, q1, "aggsigdb error")
         [] ans.sel.kind \notin {"err", "sync"} ->
              Pass(cache, resp, q1, "invalid sync committee selection")
         [] OTHER ->
              IF ans.spec THEN Pass(cache, resp, q1, "beacon node error")
              ELSE IF ~IsSyncCommAggregator(ans.sel.proof) THEN Pass(cache, resp, q1, Nil)
              ELSE IF ans.msg = "err" THEN Pass(cache, resp, q2, "aggsigdb error")
              ELSE IF ans.msg = "invalid"
              THEN Pass(cache, resp, q2, "invalid sync committee message")
              ELSE IF ans.bn = "err" THEN Pass(cache, resp, q3, "beacon node error")
              ELSE IF respData(ans) = "nil"
              THEN Pass(cache, resp, q3,
                        "sync committee contribution not found by root (retryable)")
              ELSE Pass(cache, Put(resp, pubkey, ans.bn), q3, Nil)

\* The pass of the loop of the duty's type.
fetchPass(duty, pubkey, def, cache, resp, ans) ==
    IF duty.type = "proposer"
    THEN fetchProposerData(duty.slot, pubkey, def, cache, resp, ans)
    ELSE IF duty.type = "attester"
    THEN fetchAttesterData(duty.slot, pubkey, def, cache, resp, ans)
    ELSE IF duty.type = "aggregator"
    THEN fetchAggregatorData(duty.slot, pubkey, def, cache, resp, ans)
    ELSE fetchContributionData(duty.slot, pubkey, def, cache, resp, ans)

\* The switch of Fetch: the error a duty type is refused with (Nil: none).
refusedUnsupportedOnly(type) ==
    IF type \in {"proposer", "attester", "builder_proposer", "aggregator",
                 "sync_contribution"}
    THEN Nil ELSE "unsupported duty type"

refused(type) ==
    CASE type = "builder_proposer" -> "deprecated duty builder proposer"
      [] type \in {"proposer", "attester", "aggregator", "sync_contribution"} -> Nil
      [] OTHER -> "unsupported duty type"

\* len(unsignedSet) == 0 in the Aggregator and SyncContribution cases.
noneSelectedIgnored(type, set) == FALSE

noneSelected(type, set) ==
    type \in {"aggregator", "sync_contribution"} /\ DOMAIN set = {}

\* Subscribe
FetcherSubscribe(fn) ==
    /\ fpc = "idle"
    /\ Len(fsubs) < NumSubs
    /\ \A i \in 1..Len(fsubs) : fsubs[i] # fn
    /\ fsubs' = Append(fsubs, fn)
    /\ UNCHANGED <<electraSlot, fetcherBuilder, freq, fpc, fidx, fcache, fresp, fqueries,
                   fcalls, fret, retried, subsVars, nonFetchVars>>

\* Fetch is called: the switch on the duty type. A duty whose Fetch has just
\* failed with a retryable error is fetched again before any other.
FetchStart(duty, defSet, order) ==
    /\ fpc = "idle"
    /\ retried \in {NoDuty, duty}
    /\ freq' = [duty |-> duty, defSet |-> defSet, order |-> order]
    /\ retried' = IF retried = duty THEN duty ELSE NoDuty
    /\ fret' = refused(duty.type)
    /\ fpc' = IF refused(duty.type) # Nil THEN "done"
              ELSE IF Len(order) = 0 THEN "deliver" ELSE "loop"
    /\ fidx' = 1
    /\ fcache' = <<>>
    /\ fresp' = <<>>
    /\ fqueries' = <<>>
    /\ fcalls' = <<>>
    /\ UNCHANGED <<electraSlot, fetcherBuilder, fsubs, subsVars, nonFetchVars>>

\* One pass of the loop over the definition set.
FetchStep(ans) ==
    /\ fpc = "loop"
    /\ ans.bn \in BNData => ans.bn = DataFor(freq.order[fidx])
    /\ LET pubkey == freq.order[fidx]
           r == fetchPass(freq.duty, pubkey, freq.defSet[pubkey], fcache, fresp, ans)
       IN /\ fqueries' = fqueries \o r.queries
          /\ IF r.err # Nil
             THEN /\ fpc' = "done"
                  /\ fret' = r.err
                  /\ fcache' = <<>>
                  /\ fresp' = <<>>
                  /\ fidx' = fidx
             ELSE /\ fpc' = IF fidx = Len(freq.order) THEN "deliver" ELSE "loop"
                  /\ fret' = Nil
                  /\ fcache' = r.cache
                  /\ fresp' = r.resp
                  /\ fidx' = fidx + 1
    /\ UNCHANGED <<electraSlot, fetcherBuilder, fsubs, freq, fcalls, retried, subsVars,
                   nonFetchVars>>

\* The loop is through: the unsigned set goes to the subscribers, unless it
\* is an empty set of an Aggregator or SyncContribution duty.
FetchDeliver(fail) ==
    /\ fpc = "deliver"
    /\ fpc' = "done"
    /\ IF noneSelected(freq.duty.type, fresp)
       THEN /\ fret' = Nil
            /\ fcalls' = <<>>
       ELSE LET d == fetcherDeliver(fsubs, 1, 0 :> fresp, freq.duty, 0, fail)
            IN /\ fret' = d.err
               /\ fcalls' = d.calls
    /\ UNCHANGED <<electraSlot, fetcherBuilder, fsubs, freq, fidx, fcache, fresp, fqueries,
                   retried, subsVars, nonFetchVars>>

\* Fetch returns; nothing of it stays but what the caller knows: that the
\* duty has just failed with a retryable error.
FetchReturn ==
    /\ fpc = "done"
    /\ fpc' = "idle"
    /\ retried' = IF fret \in Retryable THEN freq.duty ELSE NoDuty
    /\ freq' = NoFetch
    /\ fidx' = 1
    /\ fcache' = <<>>
    /\ fresp' = <<>>
    /\ fqueries' = <<>>
    /\ fcalls' = <<>>
    /\ fret' = Nil
    /\ UNCHANGED <<electraSlot, fetcherBuilder, fsubs, subsVars, nonFetchVars>>

\* New
IdleFetch ==
    /\ fsubs = <<>>
    /\ freq = NoFetch
    /\ fpc = "idle"
    /\ fidx = 1
    /\ fcache = <<>>
    /\ fresp = <<>>
    /\ fqueries = <<>>
    /\ fcalls = <<>>
    /\ fret = Nil
    /\ retried = NoDuty

InitFetch ==
    /\ electraSlot = MaxSlot
    /\ fetcherBuilder \in BOOLEAN
    /\ IdleFetch

\* The subscribers are numbered in the order they register in.
NextFetch ==
    \/ FetcherSubscribe(Len(fsubs) + 1)
    \/ \E type \in FetchDutyTypes, slot \in Slots, defSet \in DefinitionSets :
         \E order \in Orders(DOMAIN defSet) :
            FetchStart([slot |-> slot, type |-> type], defSet, order)
    \/ \E ans \in Answers(freq.duty.type) : FetchStep(ans)
    \/ \E fail \in Fails(fsubs) : FetchDeliver(fail)
    \/ FetchReturn

-----------------------------------------------------------------------------
(* Deliveries to the subscribers of the Fetcher and of the Validator-API     *)
(* component.                                                                *)

NoEvent == [by |-> "none", duty |-> NoDuty, set |-> <<>>, subs |-> <<>>]

\* The sets a delivery may carry.
EventSets == UNION {[keys -> BNData] : keys \in SUBSET PubKeys}

\* Component.Subscribe
VapiSubscribe(fn) ==
    /\ Len(vsubs) < NumSubs
    /\ \A i \in 1..Len(vsubs) : vsubs[i] # fn
    /\ vsubs' = Append(vsubs, fn)
    /\ UNCHANGED <<evt, evCalls, evOrig, evErr, fetchVars, nonFetchVars>>

\* Fetch, lines 90 to 101, for an unsigned set of any content.
FetcherEvent(duty, set, fail) ==
    /\ fpc = "idle"
    /\ LET d == fetcherDeliver(fsubs, 1, 0 :> set, duty, 0, fail)
       IN /\ evt' = [by |-> "fetcher", duty |-> duty, set |-> set, subs |-> fsubs]
          /\ evCalls' = d.calls
          /\ evOrig' = d.objs[0]
          /\ evErr' = d.err
    /\ UNCHANGED <<vsubs, fetchVars, nonFetchVars>>

\* The component hands a partially signed set to its subscribers.
VapiEvent(duty, set, fail) ==
    /\ LET d == vapiDeliver(vsubs, 1, 0 :> set, duty, 0, fail)
       IN /\ evt' = [by |-> "vapi", duty |-> duty, set |-> set, subs |-> vsubs]
          /\ evCalls' = d.calls
          /\ evOrig' = d.objs[0]
          /\ evErr' = d.err
    /\ UNCHANGED <<vsubs, fetchVars, nonFetchVars>>

IdleSubs ==
    /\ vsubs = <<>>
    /\ evt = NoEvent
    /\ evCalls = <<>>
    /\ evOrig = <<>>
    /\ evErr = Nil

EventDuties == [slot : {1}, type : {"attester"}]

NextSubs ==
    \/ \E fn \in SubIds : FetcherSubscribe(fn)
    \/ \E fn \in SubIds : VapiSubscribe(fn)
    \/ \E duty \in EventDuties, set \in EventSets :
         \E fail \in Fails(fsubs) : FetcherEvent(duty, set, fail)
    \/ \E duty \in EventDuties, set \in EventSets :
         \E fail \in Fails(vsubs) : VapiEvent(duty, set, fail)

\* C11: the subscribers of the Fetcher and of the Validator-API component are
\* called one after another in the order they registered in, each with the
\* event's duty and with a clone of its own: every subscriber sees the set as
\* the producer made it, whatever the subscribers before it wrote to theirs,
\* and the producer's set is the same after the delivery as before; unless an
\* error ended the delivery, every registered subscriber is called.
C11_FreshCloneInOrder ==
    evt # NoEvent =>
        /\ Len(evCalls) <= Len(evt.subs)
        /\ \A i \in 1..Len(evCalls) :
              /\ evCalls[i].sub = evt.subs[i]
              /\ evCalls[i].duty = evt.duty
              /\ evCalls[i].set = evt.set
        /\ evOrig = evt.set
        /\ evErr = Nil => Len(evCalls) = Len(evt.subs)
        /\ \A i \in 1..Len(evt.subs) :
              evt.subs[i] = (IF evt.by = "fetcher" THEN fsubs ELSE vsubs)[i]

\* Subscriber 2 registered with the Fetcher before subscriber 1, and both
\* were called for a set of two validators.
C11_Witness ==
    /\ evt.by = "fetcher"
    /\ evt.subs = <<2, 1>>
    /\ DOMAIN evt.set = PubKeys
    /\ Len(evCalls) = 2
    /\ evErr = Nil

-----------------------------------------------------------------------------
(* Claims about the Fetcher.                                                 *)

\* The positions in fqueries of the requests to the given endpoint.
Asked(api) == {i \in DOMAIN fqueries : fqueries[i].api = api}

\* The loop of the Fetch under way has ended without an error.
Fetched ==
    /\ fpc \in {"deliver", "done"}
    /\ freq.duty.type \in {"proposer", "attester", "aggregator", "sync_contribution"}
    /\ fidx > Len(freq.order)

\* C12: in one Fetch no committee index is asked for twice. Attester: every
\* AttestationData request is for the duty's slot and for the committee index
\* of a definition of the set, as the definition has it, also at and after the
\* Electra slot; once the loop has ended without an error, each committee
\* index of the set has been asked for exactly once and every validator has
\* the data the beacon node answered for its committee. Aggregator: every
\* AggregateAttestation request is for the committee of the selected validator
\* whose pass made it, and no committee is asked for twice.
C12_OncePerCommittee ==
    /\ freq.duty.type = "attester" =>
          LET asked == Asked("AttestationData")
              own == {freq.defSet[pk].commIdx : pk \in DOMAIN freq.defSet}
          IN /\ \A i, j \in asked : fqueries[i].arg = fqueries[j].arg => i = j
             /\ \A i \in asked :
                   /\ fqueries[i].slot = freq.duty.slot
                   /\ fqueries[i].arg = freq.defSet[fqueries[i].pk].commIdx
             /\ Fetched =>
                   /\ {fqueries[i].arg : i \in asked} = own
                   /\ Cardinality(asked) = Cardinality(own)
                   /\ DOMAIN fresp = DOMAIN freq.defSet
                   /\ \A pk \in DOMAIN fresp : \E i \in asked :
                         /\ fqueries[i].arg = freq.defSet[pk].commIdx
                         /\ fresp[pk].data = fqueries[i].ans
    /\ freq.duty.type = "aggregator" =>
          LET asked == Asked("AggregateAttestation")
          IN /\ \A i, j \in asked : fqueries[i].arg[1] = fqueries[j].arg[1] => i = j
             /\ \A i \in asked :
                   /\ fqueries[i].slot = freq.duty.slot
                   /\ fqueries[i].arg[1] = freq.defSet[fqueries[i].pk].commIdx
             /\ Fetched =>
                   /\ {fqueries[i].arg[1] : i \in asked}
                        = {freq.defSet[pk].commIdx : pk \in DOMAIN fresp}
                   /\ \A pk \in DOMAIN fresp : \E i \in asked :
                         /\ fqueries[i].arg[1] = freq.defSet[pk].commIdx
                         /\ fresp[pk] = fqueries[i].ans

\* Two validators of committee 1 at the Electra slot: one request, for
\* committee 1, and both have its answer.
C12_Witness ==
    /\ freq.duty = [slot |-> electraSlot, type |-> "attester"]
    /\ DOMAIN freq.defSet = PubKeys
    /\ \A pk \in PubKeys : freq.defSet[pk].commIdx = 1
    /\ fpc = "deliver"
    /\ Len(fqueries) = 1
    /\ fqueries[1].arg = 1
    /\ DOMAIN fresp = PubKeys

\* The answer AggSigDB gave in the pass of pk for the duty of type kind.
AggSigOf(pk, kind) ==
    LET i == CHOOSE i \in DOMAIN fqueries :
                 /\ fqueries[i].api = "AggSigDB"
                 /\ fqueries[i].pk = pk
                 /\ fqueries[i].arg = kind
    IN fqueries[i].ans

\* C13, as claimed: in one Fetch of a SyncContribution duty no two
\* SyncCommitteeContribution requests are for the same subcommittee index and
\* block root.
C13_AsClaimed ==
    freq.duty.type = "sync_contribution" =>
        \A i, j \in Asked("SyncCommitteeContribution") :
            fqueries[i].arg = fqueries[j].arg => i = j

\* C13, as the code has it: in one Fetch of a SyncContribution duty every
\* SyncCommitteeContribution request is made in the pass of a selected
\* validator, for the duty's slot, the subcommittee index of that validator's
\* selection and the block root of its sync message, and no pass makes two;
\* once the loop has ended without an error, every validator of the unsigned
\* set has the answer to the request of its own pass, whatever the other
\* validators asked for.
C13_OneRequestPerSelected ==
    freq.duty.type = "sync_contribution" =>
        LET asked == Asked("SyncCommitteeContribution")
        IN /\ \A i, j \in asked : fqueries[i].pk = fqueries[j].pk => i = j
           /\ \A i \in asked :
                 LET sel == AggSigOf(fqueries[i].pk, "prepare_sync_contribution")
                 IN /\ fqueries[i].slot = freq.duty.slot
                    /\ IsSyncCommAggregator(sel.proof)
                    /\ fqueries[i].arg = <<sel.subcomm, AggSigOf(fqueries[i].pk, "sync_message")>>
           /\ Fetched =>
                 /\ {fqueries[i].pk : i \in asked} = DOMAIN fresp
                 /\ \A i \in asked : fresp[fqueries[i].pk] = fqueries[i].ans

\* Two selected validators of subcommittee 1 with the same block root: two
\* requests, alike, and each validator has the answer to its own.
C13_Witness ==
    /\ freq.duty.type = "sync_contribution"
    /\ fpc = "deliver"
    /\ DOMAIN fresp = PubKeys
    /\ Cardinality(Asked("SyncCommitteeContribution")) = 2
    /\ \A i \in Asked("SyncCommitteeContribution") : fqueries[i].arg = <<1, "r1">>
    /\ fresp["A"] # fresp["B"]

\* C14: a Fetch of a BuilderProposer duty ends with the deprecated-duty
\* error, whatever the slot and the definition set, having asked the beacon
\* node, AggSigDB and DutyDB nothing and called no subscriber; a Fetch of a
\* duty of any other type the switch does not know ends with an error, having
\* asked nothing and called no subscriber.
C14_RefusedDuties ==
    /\ freq.duty.type = "builder_proposer" =>
          /\ fpc = "done"
          /\ fret = "deprecated duty builder proposer"
          /\ fqueries = <<>>
          /\ fcalls = <<>>
    /\ freq.duty.type \notin {"none", "proposer", "attester", "builder_proposer",
                              "aggregator", "sync_contribution"} =>
          /\ fpc = "done"
          /\ fret # Nil
          /\ fqueries = <<>>
          /\ fcalls = <<>>

\* A BuilderProposer duty with two validators, two subscribers registered.
C14_Witness ==
    /\ freq.duty.type = "builder_proposer"
    /\ DOMAIN freq.defSet = PubKeys
    /\ Len(fsubs) = 2
    /\ fpc = "done"

\* C15: once the beacon node has answered an AggregateAttestation or a
\* SyncCommitteeContribution request with nil data, the Fetch has ended with
\* the retryable not-found error of that request, no subscriber has been
\* called, and nothing of what the call had resolved is left; between two
\* calls the Fetcher holds nothing of a call.
C15_NilIsRetryable ==
    /\ \A i \in Asked("AggregateAttestation") :
          fqueries[i].ans = "nil" =>
              /\ fpc = "done"
              /\ fret = "aggregate attestation not found by root (retryable)"
              /\ fcalls = <<>>
              /\ fresp = <<>>
              /\ fcache = <<>>
    /\ \A i \in Asked("SyncCommitteeContribution") :
          fqueries[i].ans = "nil" =>
              /\ fpc = "done"
              /\ fret = "sync committee contribution not found by root (retryable)"
              /\ fcalls = <<>>
              /\ fresp = <<>>
              /\ fcache = <<>>
    /\ fpc = "idle" => fresp = <<>> /\ fcache = <<>> /\ fqueries = <<>>

\* The Fetch of an Aggregator duty failed with the retryable error, the
\* second validator's request having been answered with nil after the first
\* validator was resolved.
C15_Witness ==
    /\ freq.duty.type = "aggregator"
    /\ fpc = "done"
    /\ fret \in Retryable
    /\ Cardinality(Asked("AggregateAttestation")) = 2
    /\ Len(fsubs) = 2

\* The next Fetch of a duty that had failed with the retryable error has
\* succeeded and called both subscribers.
C15_RetryWitness ==
    /\ retried # NoDuty
    /\ retried = freq.duty
    /\ fpc = "done"
    /\ fret = Nil
    /\ Len(fcalls) = 2

\* C16: every block request of a Proposer duty follows at once the answer of
\* AggSigDB to the Randao duty of the same slot and validator, and carries
\* the signature of that answer as its randao reveal; when AggSigDB answers
\* with an error (a cancelled query is one), the Fetch has ended with that
\* error, with no block request for that validator and no subscriber called.
C16_RandaoBeforeBlock ==
    freq.duty.type = "proposer" =>
        /\ \A i \in Asked("Proposal") :
              /\ i > 1
              /\ fqueries[i - 1].api = "AggSigDB"
              /\ fqueries[i - 1].arg = "randao"
              /\ fqueries[i - 1].slot = freq.duty.slot
              /\ fqueries[i - 1].pk = fqueries[i].pk
              /\ fqueries[i - 1].ans # "err"
              /\ fqueries[i].slot = freq.duty.slot
              /\ fqueries[i].arg.randao = fqueries[i - 1].ans
        /\ \A i \in Asked("AggSigDB") :
              fqueries[i].ans = "err" =>
                  /\ i = Len(fqueries)
                  /\ fpc = "done"
                  /\ fret = "aggsigdb error"
                  /\ fcalls = <<>>

\* Two validators with different aggregated randao signatures, both blocks
\* fetched and delivered.
C16_Witness ==
    /\ freq.duty.type = "proposer"
    /\ Cardinality(Asked("Proposal")) = 2
    /\ \E i, j \in Asked("Proposal") : fqueries[i].arg.randao # fqueries[j].arg.randao
    /\ fpc = "done"
    /\ Len(fcalls) >= 1

\* C17: in a Fetch of an Aggregator duty, DutyDB and the beacon node's
\* AggregateAttestation are asked only in the pass of a validator whose
\* selection proof, as AggSigDB answered it for the PrepareAggregator duty of
\* the slot, is a multiple of the modulo of its committee's length; once the
\* loop has ended without an error, the unsigned set holds exactly the
\* validators of the definition set with such a proof.
C17_SelectedAggregatorsOnly ==
    freq.duty.type = "aggregator" =>
        LET Selected(pk) ==
                LET sel == AggSigOf(pk, "prepare_aggregator")
                IN /\ sel.kind = "beacon"
                   /\ sel.proof % AggregatorModulo(freq.defSet[pk].commLen) = 0
        IN /\ \A i \in Asked("AggSigDB") :
                 /\ fqueries[i].arg = "prepare_aggregator"
                 /\ fqueries[i].slot = freq.duty.slot
           /\ \A i \in Asked("DutyDB") \cup Asked("AggregateAttestation") :
                 Selected(fqueries[i].pk)
           /\ Fetched =>
                 /\ DOMAIN fresp \subseteq DOMAIN freq.defSet
                 /\ \A pk \in DOMAIN freq.defSet : pk \in DOMAIN fresp <=> Selected(pk)

\* Validator A is selected and has its aggregate, validator B, of the
\* committee of 32, is not selected and nothing but its selection was asked
\* for.
C17_Witness ==
    /\ freq.duty.type = "aggregator"
    /\ DOMAIN freq.defSet = PubKeys
    /\ freq.defSet["B"].commLen = 32
    /\ fpc = "deliver"
    /\ DOMAIN fresp = {"A"}
    /\ Cardinality(Asked("AggregateAttestation")) = 1
    /\ \A i \in DOMAIN fqueries : fqueries[i].pk = "B" => fqueries[i].api = "AggSigDB"

\* C18: a Fetch of an Aggregator or SyncContribution duty whose loop has
\* ended without an error and with no validator selected returns no error
\* and calls no subscriber.
C18_NoneSelectedNoCall ==
    /\ freq.duty.type \in {"aggregator", "sync_contribution"}
    /\ Fetched
    /\ fpc = "done"
    /\ DOMAIN fresp = {}
    => fret = Nil /\ fcalls = <<>>

\* A SyncContribution duty of two validators, neither selected, with two
\* subscribers registered.
C18_Witness ==
    /\ freq.duty.type = "sync_contribution"
    /\ DOMAIN freq.defSet = PubKeys
    /\ Len(fsubs) = 2
    /\ fpc = "done"
    /\ fidx > 2
    /\ DOMAIN fresp = {}
    /\ fret = Nil

-----------------------------------------------------------------------------
(* ValidatorCache (app/eth2wrap/valcache.go). Callers run concurrently; a    *)
(* call is a sequence of steps, one per lock operation and per answer of     *)
(* the beacon node.                                                          *)

NumGetters == 2
MaxTrims == 1

Getters == 1..NumGetters

\* A nil map, and a map with its content; gen tells how many Trims had
\* returned when the beacon node's answer it comes from was taken in.
NilMap == [isNil |-> TRUE, vals |-> <<>>, gen |-> 0]
Map(vals, gen) == [isNil |-> FALSE, vals |-> vals, gen |-> gen]

\* The validators a response may hold, by validator index: the status of
\* each, or "nil" for a nil entry.
ValMaps == {<<>>, <<"exited">>, <<"active", "exited">>, <<"nil">>}

\* The slots GetBySlot is called for: the first of an epoch.
EpochSlots == {1}

\* What the beacon node may answer to Validators: an error, a response with
\* nil Data, or a response with validators.
NoAnswer == [err |-> FALSE, isNil |-> TRUE, vals |-> <<"none">>]
ErrAnswer == [err |-> TRUE, isNil |-> TRUE, vals |-> <<>>]
ValAnswers ==
    {ErrAnswer, [err |-> FALSE, isNil |-> TRUE, vals |-> <<>>]}
       \cup {[err |-> FALSE, isNil |-> FALSE, vals |-> v] : v \in ValMaps}

\* The locals of a call.
NoLocal ==
    [op |-> "none", slot |-> 0, startGen |-> 0, startEmpty |-> FALSE,
     completeCached |-> NilMap, activeCached |-> NilMap,
     slotAns |-> NoAnswer, headAns |-> NoAnswer, refreshedBySlot |-> FALSE,
     before |-> <<NilMap, NilMap>>, after |-> <<NilMap, NilMap>>,
     retActive |-> NilMap, retComplete |-> NilMap, retErr |-> Nil]

\* for _, val := range vals { if val == nil || val.Validator == nil ... }
hasNil(vals) == \E i \in DOMAIN vals : vals[i] = "nil"

\* The loop that builds resp: the active validators of the response.
activeOf(vals) == [i \in {j \in DOMAIN vals : vals[j] = "active"} |-> "active"]

\* eth2Resp.Data
dataOf(ans, gen) == IF ans.isNil THEN NilMap ELSE Map(ans.vals, gen)

\* Trim
TrimActiveOnly == <<NilMap, complete>>

TrimmedCache == <<NilMap, NilMap>>

Trim ==
    /\ mu = 0
    /\ trims < MaxTrims
    /\ active' = TrimmedCache[1]
    /\ complete' = TrimmedCache[2]
    /\ trims' = trims + 1
    /\ UNCHANGED <<mu, vpc, vloc, nonCacheVars>>

\* GetByHead is called: cached()
GetByHeadCached(p) ==
    /\ vpc[p] = "idle"
    /\ mu = 0
    /\ vpc' = [vpc EXCEPT ![p] = "activeCached"]
    /\ vloc' = [vloc EXCEPT ![p] =
                  [NoLocal EXCEPT !.op = "GetByHead", !.startGen = trims,
                                  !.startEmpty = (active.isNil /\ complete.isNil),
                                  !.completeCached = complete]]
    /\ UNCHANGED <<active, complete, mu, trims, nonCacheVars>>

\* GetByHead: activeCached(), and the return of the cached maps
GetByHeadActiveCached(p) ==
    /\ vpc[p] = "activeCached"
    /\ mu = 0
    /\ IF ~vloc[p].completeCached.isNil /\ ~active.isNil
       THEN /\ vpc' = [vpc EXCEPT ![p] = "ret"]
            /\ vloc' = [vloc EXCEPT ![p].activeCached = active,
                                    ![p].retActive = active,
                                    ![p].retComplete = vloc[p].completeCached]
       ELSE /\ vpc' = [vpc EXCEPT ![p] = "lock"]
            /\ vloc' = [vloc EXCEPT ![p].activeCached = active]
    /\ UNCHANGED <<active, complete, mu, trims, nonCacheVars>>

\* GetByHead: c.mu.Lock(), and the request to the beacon node
GetByHeadNoLock(p) ==
    /\ vpc[p] = "lock"
    /\ vpc' = [vpc EXCEPT ![p] = "head"]
    /\ UNCHANGED <<active, complete, mu, trims, vloc, nonCacheVars>>

GetByHeadLock(p) ==
    /\ vpc[p] = "lock"
    /\ mu = 0
    /\ mu' = p
    /\ vpc' = [vpc EXCEPT ![p] = "head"]
    /\ UNCHANGED <<active, complete, trims, vloc, nonCacheVars>>

\* What a call does with a response that is no error: the maps it stores
\* and returns, or the error of a nil entry.
taken(ans, gen) ==
    IF hasNil(ans.vals)
    THEN [err |-> "validator data cannot be nil", active |-> NilMap, complete |-> NilMap]
    ELSE [err |-> Nil, active |-> Map(activeOf(ans.vals), gen),
          complete |-> dataOf(ans, gen)]

\* A mutant: the maps are stored before the response is looked through for nil
\* entries.
finishStoresFirst(p, ans, err) ==
    LET t == taken(ans, trims)
        e == IF err # Nil THEN err ELSE t.err
    IN /\ active' = IF err = Nil THEN Map(activeOf(ans.vals), trims) ELSE active
       /\ complete' = IF err = Nil THEN dataOf(ans, trims) ELSE complete
       /\ mu' = 0
       /\ vpc' = [vpc EXCEPT ![p] = "ret"]
       /\ vloc' = [vloc EXCEPT ![p].headAns = IF vpc[p] = "head" THEN ans ELSE @,
                               ![p].slotAns = IF vpc[p] = "slot" THEN ans ELSE @,
                               ![p].before = <<active, complete>>,
                               ![p].after = <<active', complete'>>,
                               ![p].retErr = e,
                               ![p].retActive = IF e = Nil THEN t.active ELSE NilMap,
                               ![p].retComplete = IF e = Nil THEN t.complete ELSE NilMap]
       /\ UNCHANGED <<trims, nonCacheVars>>

\* The end of a call that holds the lock, with the beacon node's answer ans:
\* with an error nothing is stored.
finish(p, ans, err) ==
    LET t == taken(ans, trims)
        e == IF err # Nil THEN err ELSE t.err
    IN /\ active' = IF e = Nil THEN t.active ELSE active
       /\ complete' = IF e = Nil THEN t.complete ELSE complete
       /\ mu' = 0
       /\ vpc' = [vpc EXCEPT ![p] = "ret"]
       /\ vloc' = [vloc EXCEPT ![p].headAns = IF vpc[p] = "head" THEN ans ELSE @,
                               ![p].slotAns = IF vpc[p] = "slot" THEN ans ELSE @,
                               ![p].before = <<active, complete>>,
                               ![p].after = <<active', complete'>>,
                               ![p].retErr = e,
                               ![p].retActive = IF e = Nil THEN t.active ELSE NilMap,
                               ![p].retComplete = IF e = Nil THEN t.complete ELSE NilMap]
       /\ UNCHANGED <<trims, nonCacheVars>>

\* GetByHead: the beacon node answers, the cache is filled, the lock released
GetByHeadAnswer(p, ans) ==
    /\ vpc[p] = "head"
    /\ vloc[p].op = "GetByHead"
    /\ finish(p, ans, IF ans.err THEN "beacon node error" ELSE Nil)

\* refreshedBySlot after the request by slot
refreshedAlways(slotErr) == TRUE

refreshed(slotErr) == ~slotErr

\* GetBySlot is called: c.mu.Lock(), and the request by slot
GetBySlotLock(p, slot) ==
    /\ vpc[p] = "idle"
    /\ mu = 0
    /\ mu' = p
    /\ vpc' = [vpc EXCEPT ![p] = "slot"]
    /\ vloc' = [vloc EXCEPT ![p] =
                  [NoLocal EXCEPT !.op = "GetBySlot", !.slot = slot, !.startGen = trims,
                                  !.refreshedBySlot = TRUE]]
    /\ UNCHANGED <<active, complete, trims, nonCacheVars>>

\* GetBySlot: the beacon node answers the request by slot; on an error the
\* request is made again for the head state
GetBySlotAnswer(p, ans) ==
    /\ vpc[p] = "slot"
    /\ IF ans.err
       THEN /\ vpc' = [vpc EXCEPT ![p] = "head"]
            /\ vloc' = [vloc EXCEPT ![p].slotAns = ans,
                                    ![p].refreshedBySlot = refreshed(TRUE)]
            /\ UNCHANGED <<active, complete, mu, trims, nonCacheVars>>
       ELSE finish(p, ans, Nil)

\* GetBySlot: the beacon node answers the request for the head state
GetBySlotHeadAnswer(p, ans) ==
    /\ vpc[p] = "head"
    /\ vloc[p].op = "GetBySlot"
    /\ finish(p, ans, IF ans.err THEN "beacon node error" ELSE Nil)

\* The caller has its result and may call again.
VcReturn(p) ==
    /\ vpc[p] = "ret"
    /\ vpc' = [vpc EXCEPT ![p] = "idle"]
    /\ vloc' = [vloc EXCEPT ![p] = NoLocal]
    /\ UNCHANGED <<active, complete, mu, trims, nonCacheVars>>

\* NewValidatorCache
InitCache ==
    /\ active = NilMap
    /\ complete = NilMap
    /\ mu = 0
    /\ trims = 0
    /\ vpc = [p \in Getters |-> "idle"]
    /\ vloc = [p \in Getters |-> NoLocal]

NextCache ==
    \/ Trim
    \/ \E p \in Getters : GetByHeadCached(p)
    \/ \E p \in Getters : GetByHeadActiveCached(p)
    \/ \E p \in Getters : GetByHeadLock(p)
    \/ \E p \in Getters, ans \in ValAnswers : GetByHeadAnswer(p, ans)
    \/ \E p \in Getters, slot \in EpochSlots : GetBySlotLock(p, slot)
    \/ \E p \in Getters, ans \in ValAnswers : GetBySlotAnswer(p, ans)
    \/ \E p \in Getters, ans \in ValAnswers : GetBySlotHeadAnswer(p, ans)
    \/ \E p \in Getters : VcReturn(p)

-----------------------------------------------------------------------------
(* Claims about the ValidatorCache.                                          *)

\* The call of p has returned what the answer ans holds, and has left it in
\* the cache.
CachedAndReturned(p, ans) ==
    /\ vloc[p].retErr = Nil
    /\ vloc[p].retComplete.isNil = ans.isNil
    /\ vloc[p].retComplete.vals = ans.vals
    /\ vloc[p].retActive.isNil = FALSE
    /\ vloc[p].retActive.vals = activeOf(ans.vals)
    /\ vloc[p].after = <<vloc[p].retActive, vloc[p].retComplete>>

\* The call of p has returned an error and no maps, and has left the cache as
\* it found it.
FailedUnchanged(p) ==
    /\ vloc[p].retErr # Nil
    /\ vloc[p].retActive = NilMap
    /\ vloc[p].retComplete = NilMap
    /\ vloc[p].after = vloc[p].before

\* C19, as claimed: a GetBySlot whose request by slot succeeds caches and
\* returns the slot's data with refreshedBySlot true; one whose request by
\* slot fails and whose request for the head succeeds caches and returns the
\* head's data with refreshedBySlot false; one whose requests both fail
\* returns the error with refreshedBySlot false and leaves the cache as it
\* was.
C19_AsClaimed ==
    \A p \in Getters :
        vpc[p] = "ret" /\ vloc[p].op = "GetBySlot" =>
            /\ ~vloc[p].slotAns.err =>
                  CachedAndReturned(p, vloc[p].slotAns) /\ vloc[p].refreshedBySlot
            /\ vloc[p].slotAns.err /\ ~vloc[p].headAns.err =>
                  CachedAndReturned(p, vloc[p].headAns) /\ ~vloc[p].refreshedBySlot
            /\ vloc[p].slotAns.err /\ vloc[p].headAns.err =>
                  FailedUnchanged(p) /\ ~vloc[p].refreshedBySlot

\* C19, as the code has it: the three cases hold for responses without a nil
\* validator entry; a response with a nil entry, to the request by slot or to
\* the request for the head, makes GetBySlot return the nil-data error with
\* refreshedBySlot as it stood (true after the slot's response, false after
\* the head's), without a request for the head in the first case, and with
\* the cache left as it was.
C19_GetBySlotCases ==
    \A p \in Getters :
        vpc[p] = "ret" /\ vloc[p].op = "GetBySlot" =>
            /\ ~vloc[p].slotAns.err /\ ~hasNil(vloc[p].slotAns.vals) =>
                  /\ CachedAndReturned(p, vloc[p].slotAns)
                  /\ vloc[p].refreshedBySlot
                  /\ vloc[p].headAns = NoAnswer
            /\ ~vloc[p].slotAns.err /\ hasNil(vloc[p].slotAns.vals) =>
                  /\ FailedUnchanged(p)
                  /\ vloc[p].retErr = "validator data cannot be nil"
                  /\ vloc[p].refreshedBySlot
                  /\ vloc[p].headAns = NoAnswer
            /\ vloc[p].slotAns.err /\ ~vloc[p].headAns.err
                 /\ ~hasNil(vloc[p].headAns.vals) =>
                  CachedAndReturned(p, vloc[p].headAns) /\ ~vloc[p].refreshedBySlot
            /\ vloc[p].slotAns.err /\ ~vloc[p].headAns.err
                 /\ hasNil(vloc[p].headAns.vals) =>
                  /\ FailedUnchanged(p)
                  /\ vloc[p].retErr = "validator data cannot be nil"
                  /\ ~vloc[p].refreshedBySlot
            /\ vloc[p].slotAns.err /\ vloc[p].headAns.err =>
                  FailedUnchanged(p) /\ ~vloc[p].refreshedBySlot

\* A GetBySlot on a filled cache whose request by slot was answered with a
\* nil validator entry: the error, refreshedBySlot true, the cache as before.
C19_Witness ==
    \E p \in Getters :
        /\ vpc[p] = "ret"
        /\ vloc[p].op = "GetBySlot"
        /\ ~vloc[p].slotAns.err
        /\ hasNil(vloc[p].slotAns.vals)
        /\ vloc[p].refreshedBySlot
        /\ vloc[p].retErr # Nil
        /\ ~vloc[p].before[2].isNil
        /\ vloc[p].after = vloc[p].before

\* A GetBySlot that fell back to the head state and returned its data.
C19_FallbackWitness ==
    \E p \in Getters :
        /\ vpc[p] = "ret"
        /\ vloc[p].op = "GetBySlot"
        /\ vloc[p].slotAns.err
        /\ vloc[p].headAns.vals = <<"active", "exited">>
        /\ vloc[p].retErr = Nil
        /\ ~vloc[p].refreshedBySlot

\* C20: the cache never holds a map taken in before the last Trim returned;
\* a GetByHead that has returned without an error has returned no map taken
\* in before the last Trim that returned before it started; and a GetByHead
\* that started on an empty cache has asked the beacon node.
C20_TrimInvalidates ==
    /\ ~active.isNil => active.gen = trims
    /\ ~complete.isNil => complete.gen = trims
    /\ \A p \in Getters :
          vpc[p] = "ret" /\ vloc[p].op = "GetByHead" =>
              /\ ~vloc[p].retActive.isNil => vloc[p].retActive.gen >= vloc[p].startGen
              /\ ~vloc[p].retComplete.isNil => vloc[p].retComplete.gen >= vloc[p].startGen
              /\ vloc[p].startEmpty => vloc[p].headAns # NoAnswer

\* One caller still has the maps it got before the Trim; another called
\* GetByHead after the Trim, on the empty cache, and has maps taken in after
\* it.
C20_Witness ==
    \E p, q \in Getters :
        /\ vpc[q] = "ret"
        /\ ~vloc[q].retComplete.isNil
        /\ vloc[q].retComplete.gen = 0
        /\ vpc[p] = "ret"
        /\ vloc[p].op = "GetByHead"
        /\ vloc[p].startGen = 1
        /\ vloc[p].startEmpty
        /\ vloc[p].retErr = Nil
        /\ vloc[p].retComplete = Map(<<"active", "exited">>, 1)

\* A Validators request of the caller p is in flight.
InFlight(p) == vpc[p] \in {"head", "slot"}

\* C21, as claimed: the mutex of the ValidatorCache is free whenever a
\* Validators request of GetByHead or GetBySlot is in flight.
C21_AsClaimed == \A p \in Getters : InFlight(p) => mu = 0

\* C21, as the code has it: a caller holds the exclusive lock exactly while
\* its Validators request is in flight (GetBySlot through both of its
\* requests), so no two requests are in flight at once; and as long as the
\* lock is held no Trim returns, no cached read and no other call gets on,
\* and the cache changes only as the holder's call ends.
C21_LockHeldAcrossRequest ==
    /\ [](\A p \in Getters : InFlight(p) <=> mu = p)
    /\ [][mu # 0 =>
            /\ trims' = trims
            /\ \A p \in Getters :
                  vpc[p] \in {"idle", "activeCached", "lock"} => vpc'[p] = vpc[p]
            /\ <<active, complete>>' # <<active, complete>> => mu' = 0]_vars

\* One caller's GetByHead request is in flight under the lock while the
\* other caller, between its two cached reads, waits.
C21_Witness ==
    \E p, q \in Getters :
        /\ vloc[p].op = "GetByHead"
        /\ vpc[p] = "head"
        /\ mu = p
        /\ vpc[q] = "activeCached"

\* C22: two GetByHead calls that have returned maps taken in between the
\* same two Trims have returned the same status for every validator index
\* both know, whatever the beacon node answered.
C22_SameDataPerEpoch ==
    \A p, q \in Getters :
        /\ vpc[p] = "ret" /\ vloc[p].op = "GetByHead"
        /\ vloc[p].retErr = Nil /\ ~vloc[p].retComplete.isNil
        /\ vpc[q] = "ret" /\ vloc[q].op = "GetByHead"
        /\ vloc[q].retErr = Nil /\ ~vloc[q].retComplete.isNil
        /\ vloc[p].retComplete.gen = vloc[q].retComplete.gen
        => \A i \in DOMAIN vloc[p].retComplete.vals \cap DOMAIN vloc[q].retComplete.vals :
               vloc[p].retComplete.vals[i] = vloc[q].retComplete.vals[i]

\* Two GetByHead calls that raced on the empty cache have both asked the
\* beacon node and have returned different statuses of validator 1.
C22_RaceWitness ==
    \E p, q \in Getters :
        /\ vpc[p] = "ret" /\ vloc[p].op = "GetByHead" /\ vloc[p].startEmpty
        /\ vpc[q] = "ret" /\ vloc[q].op = "GetByHead" /\ vloc[q].startEmpty
        /\ vloc[p].startGen = vloc[q].startGen
        /\ vloc[p].retComplete = Map(<<"exited">>, vloc[p].startGen)
        /\ vloc[q].retComplete = Map(<<"active", "exited">>, vloc[p].startGen)

\* C34: the active and complete maps a GetByHead call returns belong together: the
\* active map holds exactly the validators of the returned complete map whose
\* status is active, whatever other calls run beside it.
C34_ConsistentSnapshot ==
    \A p \in Getters :
        (vpc[p] = "ret" /\ vloc[p].op = "GetByHead" /\ vloc[p].retErr = Nil)
            => vloc[p].retActive.vals = activeOf(vloc[p].retComplete.vals)

\* A GetByHead call has read the complete map, another call has then replaced both
\* maps, and the first call has returned the new active map with the old complete
\* map.
C34_TornReadWitness ==
    \E p \in Getters :
        /\ vpc[p] = "ret"
        /\ vloc[p].op = "GetByHead"
        /\ vloc[p].retErr = Nil
        /\ vloc[p].headAns = NoAnswer
        /\ vloc[p].retComplete.vals = <<"exited">>
        /\ vloc[p].retActive.vals = activeOf(<<"active", "exited">>)

\* C35: a miss is answered by one request.  A GetByHead call asks the beacon node
\* only while the cache lacks a map: a caller that gets the exclusive lock after
\* another caller has filled the cache does not ask again.
C35_OneQueryPerMiss ==
    \A p \in Getters :
        (vpc[p] = "head" /\ vloc[p].op = "GetByHead") => (active.isNil \/ complete.isNil)

\* Two GetByHead calls raced on the empty cache: the first has filled it and
\* returned, the second holds the lock and is asking the beacon node again.
C35_SecondQueryWitness ==
    \E p, q \in Getters :
        /\ vpc[p] = "ret" /\ vloc[p].op = "GetByHead" /\ vloc[p].startEmpty
        /\ vloc[p].retErr = Nil
        /\ vloc[p].headAns # NoAnswer
        /\ vpc[q] = "head" /\ vloc[q].op = "GetByHead" /\ vloc[q].startEmpty
        /\ vloc[q].startGen = vloc[p].startGen
        /\ mu = q
        /\ ~active.isNil /\ ~complete.isNil
        /\ trims = vloc[p].startGen

\* The cache was filled when the call of p started: a GetByHead or GetBySlot had
\* stored its maps (the active map a fill stores is never nil) and no Trim had
\* returned since.
StartedFilled(p) == vloc[p].op = "GetByHead" /\ ~vloc[p].startEmpty

\* C36: a GetByHead call that starts after a GetByHead or GetBySlot has returned
\* successfully is served from the cache, without a request to the beacon node, as
\* long as no Trim has returned since it started, whatever the beacon node had
\* answered to the fill.
C36_ServedFromCache ==
    \A p \in Getters :
        (StartedFilled(p) /\ vloc[p].startGen = trims) =>
            /\ vpc[p] \notin {"lock", "head"}
            /\ vloc[p].headAns = NoAnswer

\* The beacon node answered a fill with nil data; the next GetByHead, started with
\* no other call under way and no Trim since, is asking the beacon node again.
C36_NilDataWitness ==
    \E p \in Getters :
        /\ StartedFilled(p)
        /\ vloc[p].startGen = trims
        /\ vpc[p] = "head"
        /\ \A q \in Getters \ {p} : vpc[q] = "idle"
        /\ complete.isNil
        /\ active = Map(<<>>, trims)

\* C37: a refill that fails leaves the cache as it was.  A GetByHead or GetBySlot
\* call that returns an error (the beacon node failed, or its response holds a nil
\* validator entry) returns no maps, and the cached active and complete maps are,
\* when it releases the lock, the maps it found when it took the lock.
C37_FailedRefillUnchanged ==
    \A p \in Getters :
        (vpc[p] = "ret" /\ vloc[p].retErr # Nil) => FailedUnchanged(p)

\* A GetByHead that saw an empty cache took the lock after another call had filled
\* it; its response held a nil validator entry and the filled cache is as it was.
C37_Witness ==
    \E p \in Getters :
        /\ vpc[p] = "ret"
        /\ vloc[p].op = "GetByHead"
        /\ vloc[p].retErr = "validator data cannot be nil"
        /\ vloc[p].before[2] = Map(<<"active", "exited">>, trims)
        /\ vloc[p].after = vloc[p].before
        /\ <<active, complete>> = vloc[p].before

\* A GetBySlot whose two requests failed has left the filled cache as it was.
C37_BySlotWitness ==
    \E p \in Getters :
        /\ vpc[p] = "ret"
        /\ vloc[p].op = "GetBySlot"
        /\ vloc[p].slotAns.err /\ vloc[p].headAns.err
        /\ vloc[p].retErr = "beacon node error"
        /\ ~vloc[p].before[2].isNil
        /\ <<active, complete>> = vloc[p].before

-----------------------------------------------------------------------------
(* The query endpoints of the Validator-API component: the duties, the      *)
(* validators and the proposer configuration.  A handler runs to its end in *)
(* one step, the beacon node's answers being chosen with the request; calls *)
(* lists the requests it made to eth2Cl, in order.                          *)

\* An eth2p0.BLSPubKey: the group key of a validator (share index 0) or one of
\* its public shares (PubShare).
Eth2Key(pubkey) == <<pubkey, 0>>

NilKey == <<Nil, 0>>

\* sharesByKey and keysByShare of NewComponent
sharesByKey == [key \in {Eth2Key(pk) : pk \in PubKeys} |-> PubShare(key[1], ShareIdx)]

keysByShare == [share \in {sharesByKey[key] : key \in DOMAIN sharesByKey} |-> Eth2Key(share[1])]

\* The shares of the cluster's validators, of every operator.
NumShares == 2
AllPubShares == {PubShare(pk, idx) : pk \in PubKeys, idx \in 1..NumShares}

\* getPubShareFunc of NewComponent, on an eth2p0.BLSPubKey
getPubShare(pubkey) ==
    IF pubkey \in DOMAIN sharesByKey
    THEN [share |-> sharesByKey[pubkey], ok |-> TRUE]
    ELSE [share |-> NilKey, ok |-> FALSE]

\* getPubKeyFunc of NewComponent
getPubKeyFunc(share) ==
    IF share \in DOMAIN keysByShare THEN [key |-> keysByShare[share], err |-> Nil]
    ELSE IF share \in AllPubShares
    THEN [key |-> NilKey, err |-> "mismatching validator client key share index"]
    ELSE [key |-> NilKey, err |-> "unknown public key"]

\* wrapResponseWithMetadata
wrapResponseWithMetadata(data, metadata) ==
    [err |-> Nil, data |-> {data}, metadata |-> metadata]

ErrRet(err) == [err |-> err, data |-> {}]

\* The duties the beacon node answers with: of the cluster's validators, of a
\* validator outside the cluster, or a nil entry.
NilDutyEntry == [isNil |-> TRUE, pubkey |-> NilKey, slot |-> 0]

BNDuties ==
    {[isNil |-> FALSE, pubkey |-> Eth2Key(pk), slot |-> slot] : pk \in AllKeys, slot \in Slots}
        \cup {NilDutyEntry}

DutiesAnswers ==
    {[err |-> Nil, data |-> duties, metadata |-> "dependent_root"] :
        duties \in Batches(BNDuties)}
        \cup {[err |-> "beacon node error", data |-> <<>>, metadata |-> Nil]}

\* The loop of a duties endpoint over the duties of the response, from duty i on:
\* an unknown validator is left as it is (ProposerDuties) or ends the request.
RECURSIVE replacePubKeysUnknownIgnored(_, _, _)
replacePubKeysUnknownIgnored(duties, i, ignoreUnknown) ==
    IF i > Len(duties) THEN [err |-> Nil, duties |-> duties]
    ELSE IF duties[i].isNil THEN [err |-> "duty cannot be nil", duties |-> <<>>]
    ELSE LET found == getPubShare(duties[i].pubkey) IN
         IF ~found.ok
         THEN replacePubKeysUnknownIgnored(duties, i + 1, ignoreUnknown)
         ELSE replacePubKeysUnknownIgnored([duties EXCEPT ![i].pubkey = found.share],
                                           i + 1, ignoreUnknown)

RECURSIVE replacePubKeys(_, _, _)
replacePubKeys(duties, i, ignoreUnknown) ==
    IF i > Len(duties) THEN [err |-> Nil, duties |-> duties]
    ELSE IF duties[i].isNil THEN [err |-> "duty cannot be nil", duties |-> <<>>]
    ELSE LET found == getPubShare(duties[i].pubkey) IN
         IF ~found.ok
         THEN IF ignoreUnknown THEN replacePubKeys(duties, i + 1, ignoreUnknown)
              ELSE [err |-> "pubshare not found", duties |-> <<>>]
         ELSE replacePubKeys([duties EXCEPT ![i].pubkey = found.share], i + 1, ignoreUnknown)

proposerDuties(eth2Resp) ==
    IF eth2Resp.err # Nil THEN ErrRet(eth2Resp.err)
    ELSE LET r == replacePubKeys(eth2Resp.data, 1, TRUE) IN
         IF r.err # Nil THEN ErrRet(r.err)
         ELSE wrapResponseWithMetadata(r.duties, eth2Resp.metadata)

attesterDuties(eth2Resp) ==
    IF eth2Resp.err # Nil THEN ErrRet(eth2Resp.err)
    ELSE LET r == replacePubKeys(eth2Resp.data, 1, FALSE) IN
         IF r.err # Nil THEN ErrRet(r.err)
         ELSE wrapResponseWithMetadata(r.duties, eth2Resp.metadata)

syncCommitteeDuties(eth2Resp) ==
    IF eth2Resp.err # Nil THEN ErrRet(eth2Resp.err)
    ELSE LET r == replacePubKeys(eth2Resp.data, 1, FALSE) IN
         IF r.err # Nil THEN ErrRet(r.err)
         ELSE wrapResponse(r.duties)

DutiesOpts == [epoch : Epochs]

Eth2Call(api, opts) == [api |-> api, opts |-> opts]

ProposerDuties ==
    /\ req = NoReq
    /\ \E opts \in DutiesOpts, eth2Resp \in DutiesAnswers :
         /\ req' = [op |-> "ProposerDuties", opts |-> opts, eth2Resp |-> eth2Resp]
         /\ calls' = <<Eth2Call("ProposerDuties", opts)>>
         /\ ret' = proposerDuties(eth2Resp)
    /\ UNCHANGED <<insecureTest, builderEnabled, nonVapiVars>>

AttesterDuties ==
    /\ req = NoReq
    /\ \E opts \in DutiesOpts, eth2Resp \in DutiesAnswers :
         /\ req' = [op |-> "AttesterDuties", opts |-> opts, eth2Resp |-> eth2Resp]
         /\ calls' = <<Eth2Call("AttesterDuties", opts)>>
         /\ ret' = attesterDuties(eth2Resp)
    /\ UNCHANGED <<insecureTest, builderEnabled, nonVapiVars>>

SyncCommitteeDuties ==
    /\ req = NoReq
    /\ \E opts \in DutiesOpts, eth2Resp \in DutiesAnswers :
         /\ req' = [op |-> "SyncCommitteeDuties", opts |-> opts, eth2Resp |-> eth2Resp]
         /\ calls' = <<Eth2Call("SyncCommitteeDuties", opts)>>
         /\ ret' = syncCommitteeDuties(eth2Resp)
    /\ UNCHANGED <<insecureTest, builderEnabled, nonVapiVars>>

\* Validators: the validators are those of ActiveValidators, two of the cluster
\* and one outside of it; the complete-validators table of the cache holds
\* validators of the cluster only.
Validator(vIdx, status) ==
    [isNil |-> FALSE, index |-> vIdx, status |-> status,
     pubkey |-> Eth2Key(ActiveValidators[vIdx])]

NilValidator(vIdx) == [isNil |-> TRUE, index |-> vIdx, status |-> Nil, pubkey |-> NilKey]

ValidatorMaps(indices, statuses) ==
    UNION {[S -> statuses] : S \in SUBSET indices}

ValidatorsOf(m) == [vIdx \in DOMAIN m |-> Validator(vIdx, m[vIdx])]

NoValidators == [err |-> "beacon node error", vals |-> <<>>]

\* The answers of eth2Cl.CompleteValidators.
CachedAnswers ==
    {[err |-> Nil, vals |-> ValidatorsOf(m)] : m \in ValidatorMaps({0, 1}, {"active"})}
        \cup {[err |-> "cache error", vals |-> <<>>]}

\* The answers of eth2Cl.Validators: validators that are active or have exited
\* since the cache was filled, a nil entry, or an error.
BNValidators ==
    {[err |-> Nil, vals |-> ValidatorsOf(m)] :
        m \in ValidatorMaps(DOMAIN ActiveValidators, {"active"})
              \cup ValidatorMaps(DOMAIN ActiveValidators, {"exited"})}
        \cup {[err |-> Nil, vals |-> (0 :> NilValidator(0))], NoValidators}

\* opts.PubKeys of the validator client (this operator's shares, a share of
\* another operator, a key that is no share) and opts.Indices.
ValidatorsOpts ==
    [pubkeys : Batches({PubShare("A", ShareIdx), PubShare("B", ShareIdx),
                        PubShare("B", NumShares), PubShare(OutsideKey, ShareIdx)}),
     indices : {<<>>, <<0>>, <<2>>}]

\* convertValidators.  The map is ranged over in no fixed order: of a map with both
\* a nil entry and an unknown validator either error may come, and the answers
\* above never hold both.
convertValidators(vals, ignoreNotFound) ==
    IF \E vIdx \in DOMAIN vals : vals[vIdx].isNil
    THEN [err |-> "validator data cannot be nil", vals |-> <<>>]
    ELSE IF ~ignoreNotFound /\ \E vIdx \in DOMAIN vals : ~getPubShare(vals[vIdx].pubkey).ok
    THEN [err |-> "pubshare not found", vals |-> <<>>]
    ELSE [err |-> Nil,
          vals |-> [vIdx \in DOMAIN vals |->
                       LET found == getPubShare(vals[vIdx].pubkey) IN
                       IF found.ok THEN [vals[vIdx] EXCEPT !.pubkey = found.share]
                       ELSE vals[vIdx]]]

\* Validators, the loop matching the pubshares to the group keys, from share i on.
RECURSIVE getPubKeys(_, _)
getPubKeys(shares, i) ==
    IF i > Len(shares) THEN [err |-> Nil, pubkeys |-> <<>>]
    ELSE LET one == getPubKeyFunc(shares[i]) IN
         IF one.err # Nil THEN [err |-> one.err, pubkeys |-> <<>>]
         ELSE LET rest == getPubKeys(shares, i + 1) IN
              IF rest.err # Nil THEN rest
              ELSE [err |-> Nil, pubkeys |-> <<one.key>> \o rest.pubkeys]

converted(vals, ignoreNotFound) ==
    LET convertedVals == convertValidators(vals, ignoreNotFound) IN
    IF convertedVals.err # Nil THEN ErrRet(convertedVals.err)
    ELSE wrapResponse(convertedVals.vals)

\* Every pubkey of the request taken as not cached.
nonCachedAll(pubkeys, cachedValidators) == pubkeys

\* The pubkeys of the request that the cached table does not hold.
nonCached(pubkeys, cachedValidators) ==
    LET cvKeys == {cachedValidators[vIdx].pubkey : vIdx \in DOMAIN cachedValidators} IN
    SelectSeq(pubkeys, LAMBDA ncVal : ncVal \notin cvKeys)

validators(opts, cached, eth2Resp) ==
    IF Len(opts.pubkeys) = 0 /\ Len(opts.indices) = 0
    THEN [calls |-> <<Eth2Call("Validators", opts)>>,
          ret |-> IF eth2Resp.err # Nil THEN ErrRet(eth2Resp.err)
                  ELSE converted(eth2Resp.vals, Len(opts.indices) = 0)]
    ELSE LET first == <<Eth2Call("CompleteValidators", [pubkeys |-> <<>>, indices |-> <<>>])>>
             matched == getPubKeys(opts.pubkeys, 1)
             cachedValidators == cached.vals
             nonCachedPubkeys == nonCached(matched.pubkeys, cachedValidators)
             fromCache ==
                 {vIdx \in DOMAIN cachedValidators :
                     \E i \in 1..Len(matched.pubkeys) :
                         matched.pubkeys[i] = cachedValidators[vIdx].pubkey}
             cachedRet == [vIdx \in fromCache |-> cachedValidators[vIdx]]
             sent == [opts EXCEPT !.pubkeys = nonCachedPubkeys]
         IN
         IF cached.err # Nil
         THEN [calls |-> first, ret |-> ErrRet("can't fetch complete validators cache")]
         ELSE IF matched.err # Nil THEN [calls |-> first, ret |-> ErrRet(matched.err)]
         ELSE IF Len(nonCachedPubkeys) # 0 \/ Len(opts.indices) > 0
         THEN [calls |-> first \o <<Eth2Call("Validators", sent)>>,
               ret |-> IF eth2Resp.err # Nil
                       THEN ErrRet("fetching non-cached validators from BN")
                       ELSE converted(eth2Resp.vals @@ cachedRet, Len(opts.indices) = 0)]
         ELSE [calls |-> first, ret |-> converted(cachedRet, Len(opts.indices) = 0)]

\* The validators a request to the beacon node asks for: all of them when it
\* names none.
AskedValidators(call) ==
    IF Len(call.opts.pubkeys) = 0 /\ Len(call.opts.indices) = 0
    THEN DOMAIN ActiveValidators
    ELSE {vIdx \in DOMAIN ActiveValidators :
             \/ \E i \in 1..Len(call.opts.pubkeys) :
                   call.opts.pubkeys[i] = Eth2Key(ActiveValidators[vIdx])
             \/ \E i \in 1..Len(call.opts.indices) : call.opts.indices[i] = vIdx}

\* The beacon node answers a request with validators the request asks for; when
\* the handler makes no request, there is no answer.
AnswersTo(callsMade, eth2Resp) ==
    LET made == {i \in 1..Len(callsMade) : callsMade[i].api = "Validators"} IN
    IF made = {} THEN eth2Resp = NoValidators
    ELSE \A i \in made :
            eth2Resp.err = Nil => DOMAIN eth2Resp.vals \subseteq AskedValidators(callsMade[i])

Validators ==
    /\ req = NoReq
    /\ \E opts \in ValidatorsOpts, cached \in CachedAnswers, eth2Resp \in BNValidators :
         LET out == validators(opts, cached, eth2Resp) IN
         /\ AnswersTo(out.calls, eth2Resp)
         /\ req' = [op |-> "Validators", opts |-> opts, cached |-> cached,
                    eth2Resp |-> eth2Resp]
         /\ calls' = out.calls
         /\ ret' = out.ret
    /\ UNCHANGED <<insecureTest, builderEnabled, nonVapiVars>>

\* ProposerConfig.  Times are in seconds, the unit of the genesis time and of
\* the slot duration of the chain's configuration.
defaultGasLimit == 30000000

zeroAddress == "0x0000000000000000000000000000000000000000"

\* Component.feeRecipientFunc
feeRecipientFunc(pubkey) == IF pubkey = "A" THEN "0xaa" ELSE "0xbb"

\* eth2wrap.FetchGenesisTime and eth2wrap.FetchSlotsConfig
GenesisAnswers ==
    [err : {Nil}, time : {0, 95}] \cup {[err |-> "beacon node error", time |-> 0]}

SlotsConfigAnswers ==
    [err : {Nil}, slotDuration : {6, 12}]
        \cup {[err |-> "beacon node error", slotDuration |-> 0]}

\* strconv.FormatInt(i, 10) of a non-negative i: its decimal digits.
RECURSIVE FormatInt(_)
FormatInt(i) == IF i < 10 THEN <<i>> ELSE FormatInt(i \div 10) \o <<i % 10>>

\* The timestamp of the overrides, the genesis time itself.
timestampAtGenesis(genesisTime, slotDuration) == genesisTime

\* timestamp := genesisTime; timestamp = timestamp.Add(slotDuration); timestamp.Unix()
timestampOf(genesisTime, slotDuration) == genesisTime + slotDuration

proposerConfig(genesis, slotsConfig) ==
    LET gasLimit == IF targetGasLimit = 0 THEN defaultGasLimit ELSE targetGasLimit
        timestamp == timestampOf(genesis.time, slotsConfig.slotDuration)
        resp ==
            [proposers |->
                [eth2Share \in {PubShare(pk, ShareIdx) : pk \in DOMAIN sharesByCoreKey} |->
                    [feeRecipient |-> feeRecipientFunc(eth2Share[1]),
                     builder |-> [enabled |-> builderEnabled,
                                  gasLimit |-> gasLimit,
                                  overrides |-> [timestamp |-> FormatInt(timestamp),
                                                 public_key |-> eth2Share[1]]]]],
             default |->
                [feeRecipient |-> zeroAddress,
                 builder |-> [enabled |-> FALSE, gasLimit |-> gasLimit]]]
    IN
    IF genesis.err # Nil
    THEN [calls |-> <<Eth2Call("Genesis", Nil)>>, ret |-> ErrRet(genesis.err)]
    ELSE IF slotsConfig.err # Nil
    THEN [calls |-> <<Eth2Call("Genesis", Nil), Eth2Call("Spec", Nil)>>,
          ret |-> ErrRet(slotsConfig.err)]
    ELSE [calls |-> <<Eth2Call("Genesis", Nil), Eth2Call("Spec", Nil)>>,
          ret |-> wrapResponse(resp)]

ProposerConfig ==
    /\ req = NoReq
    /\ \E genesis \in GenesisAnswers, slotsConfig \in SlotsConfigAnswers :
         LET out == proposerConfig(genesis, slotsConfig) IN
         /\ genesis.err # Nil => slotsConfig.err # Nil
         /\ req' = [op |-> "ProposerConfig", genesis |-> genesis,
                    slotsConfig |-> slotsConfig]
         /\ calls' = out.calls
         /\ ret' = out.ret
    /\ UNCHANGED <<insecureTest, builderEnabled, nonVapiVars>>

-----------------------------------------------------------------------------
(* The HTTP router of the Validator-API (core/validatorapi/router.go): it    *)
(* parses the request of an endpoint it handles and invokes the Handler's    *)
(* operation, and passes every other request to the beacon node through a    *)
(* reverse proxy.  Three handled endpoints stand for all of them:            *)
(*   POST /eth/v1/validator/duties/attester/{epoch}   (path parameter, body) *)
(*   POST /eth/v1/validator/duties/sync/{epoch}       (path parameter, body) *)
(*   GET  /eth/v3/validator/blocks/{slot}?randao_reveal=0x..  (path          *)
(*        parameter, 0x-hex query parameter of 96 bytes)                     *)

NoHTTP == [endpoint |-> "none"]

NoResp == [status |-> 0]

NoUpstream == [state |-> "none"]

HandledEndpoints == {"attester_duties", "sync_duties", "proposal"}

\* Endpoints the router does not handle (spec 4.8).
ProxiedEndpoints == {"node_version", "genesis", "spec", "health"}

\* The path parameters, as the characters of the path segment.
PathParams == {<<"1">>, <<"1", "2", "3">>, <<"x">>, <<"1", "x">>}

\* The value of the query parameter: missing, or 0x-hex of some bytes.
SignatureLen == 96
HexQueries == {[present |-> FALSE, len |-> 0], [present |-> TRUE, len |-> 2],
               [present |-> TRUE, len |-> 48], [present |-> TRUE, len |-> SignatureLen]}

Bodies == {"", "not json", "{}"}

HTTPRequests ==
    [endpoint : {"attester_duties", "sync_duties"}, param : PathParams,
     query : {[present |-> FALSE, len |-> 0]}, body : Bodies]
        \cup [endpoint : {"proposal"}, param : PathParams, query : HexQueries, body : {""}]
        \cup [endpoint : ProxiedEndpoints, param : {<<>>},
              query : {[present |-> FALSE, len |-> 0]}, body : {""}]

DigitValue == [ch \in {"0", "1", "2", "3"} |-> CASE ch = "0" -> 0 [] ch = "1" -> 1
                                                  [] ch = "2" -> 2 [] ch = "3" -> 3]

Message(text, name, value) == [text |-> text, name |-> name, value |-> value]

NoMessage == Message("", Nil, <<>>)

\* uintParam: the path parameter as an unsigned number.
RECURSIVE ParseUint(_)
ParseUint(chars) ==
    IF Len(chars) = 0 THEN 0
    ELSE 10 * ParseUint(SubSeq(chars, 1, Len(chars) - 1)) + DigitValue[chars[Len(chars)]]

uintParam(chars, name) ==
    IF Len(chars) > 0 /\ \A i \in 1..Len(chars) : chars[i] \in DOMAIN DigitValue
    THEN [err |-> NoMessage, val |-> ParseUint(chars)]
    ELSE [err |-> Message("invalid uint path parameter", name, chars), val |-> 0]

\* hexQueryFixed: a 0x-hex query parameter of a fixed length.
hexQueryFixed(query, name, length) ==
    IF ~query.present THEN Message("missing 0x-hex query parameter", name, <<>>)
    ELSE IF query.len # length
    THEN Message("invalid length for 0x-hex query parameter", name, <<ToString(length)>>)
    ELSE NoMessage

\* unmarshal of a JSON request body.
unmarshal(body) ==
    IF body = "" THEN Message("empty request body", Nil, <<>>)
    ELSE IF body # "{}" THEN Message("failed parsing json request body", Nil, <<>>)
    ELSE NoMessage

\* The error of parsing the request of a handled endpoint (NoMessage: none).
parseError(request) ==
    IF request.endpoint \in {"attester_duties", "sync_duties"}
    THEN IF uintParam(request.param, "epoch").err # NoMessage
         THEN uintParam(request.param, "epoch").err
         ELSE unmarshal(request.body)
    ELSE IF uintParam(request.param, "slot").err # NoMessage
         THEN uintParam(request.param, "slot").err
         ELSE hexQueryFixed(request.query, "randao_reveal", SignatureLen)

\* writeError with the error written as plain text.
writeErrorText(status, message) ==
    [status |-> status, contentType |-> "text/plain",
     body |-> [code |-> status, message |-> message]]

\* writeError: the error envelope.
writeError(status, message) ==
    [status |-> status, contentType |-> "application/json",
     body |-> [code |-> status, message |-> message]]

\* writeResponse of the data a Handler operation returned.
writeResponse(data) ==
    [status |-> 200, contentType |-> "application/json", body |-> [data |-> data]]

\* A handled request: parsed, and when that succeeds the Handler's operation is
\* invoked and its result or its error written.
Serve ==
    /\ routerPc = "idle"
    /\ \E request \in HTTPRequests, handlerFails \in BOOLEAN :
         /\ request.endpoint \in HandledEndpoints
         /\ httpReq' = request
         /\ IF parseError(request) # NoMessage
            THEN /\ ~handlerFails
                 /\ invoked' = <<>>
                 /\ httpResp' = writeError(400, parseError(request))
            ELSE /\ invoked' = <<[op |-> request.endpoint,
                                  arg |-> ParseUint(request.param)]>>
                 /\ httpResp' = IF handlerFails
                                THEN writeError(500, Message("handler error", Nil, <<>>))
                                ELSE writeResponse(request.endpoint)
    /\ routerPc' = "responded"
    /\ UNCHANGED <<upstream, proxyCtx, nonRouterVars>>

\* The answer of the reverse proxy to a request it could not pass on.
BadGateway == [status |-> 502, contentType |-> "", body |-> [data |-> ""]]

\* proxyHandler: any other request is sent to the beacon node as it came, unless
\* the context is cancelled already.
Proxy ==
    /\ routerPc = "idle"
    /\ \E request \in HTTPRequests :
         /\ request.endpoint \notin HandledEndpoints
         /\ httpReq' = request
         /\ IF proxyCtx = "cancelled"
            THEN /\ routerPc' = "responded"
                 /\ httpResp' = BadGateway
                 /\ UNCHANGED upstream
            ELSE /\ routerPc' = "proxying"
                 /\ upstream' = [state |-> "serving", request |-> request]
                 /\ UNCHANGED httpResp
    /\ UNCHANGED <<invoked, proxyCtx, nonRouterVars>>

\* The beacon node answers the proxied request and the answer goes to the client.
UpstreamAnswer ==
    /\ routerPc = "proxying"
    /\ upstream.state = "serving"
    /\ upstream' = [upstream EXCEPT !.state = "answered"]
    /\ httpResp' = writeResponse("upstream")
    /\ routerPc' = "responded"
    /\ UNCHANGED <<httpReq, invoked, proxyCtx, nonRouterVars>>

\* Shutdown: the context given to the proxy handler is cancelled.
Shutdown ==
    /\ proxyCtx = "live"
    /\ proxyCtx' = "cancelled"
    /\ UNCHANGED <<httpReq, routerPc, httpResp, invoked, upstream, nonRouterVars>>

\* A proxy that goes on waiting for the beacon node after the cancellation.
ProxyWaits ==
    /\ routerPc = "proxying"
    /\ proxyCtx = "cancelled"
    /\ UNCHANGED vars

\* The cancelled context ends the request in flight upstream; the reverse proxy
\* answers the client with a gateway error.
ProxyCancelled ==
    /\ routerPc = "proxying"
    /\ proxyCtx = "cancelled"
    /\ upstream' = [upstream EXCEPT !.state = "cancelled"]
    /\ httpResp' = BadGateway
    /\ routerPc' = "responded"
    /\ UNCHANGED <<httpReq, invoked, proxyCtx, nonRouterVars>>

\* The client has its response; the router serves the next request.
NextRequest ==
    /\ routerPc = "responded"
    /\ routerPc' = "idle"
    /\ httpReq' = NoHTTP
    /\ httpResp' = NoResp
    /\ invoked' = <<>>
    /\ upstream' = NoUpstream
    /\ UNCHANGED <<proxyCtx, nonRouterVars>>

InitRouter ==
    /\ httpReq = NoHTTP
    /\ routerPc = "idle"
    /\ httpResp = NoResp
    /\ invoked = <<>>
    /\ upstream = NoUpstream
    /\ proxyCtx = "live"

NextRouter ==
    \/ Serve
    \/ Proxy
    \/ UpstreamAnswer
    \/ Shutdown
    \/ ProxyCancelled
    \/ NextRequest

-----------------------------------------------------------------------------
(* Package deposit (eth2util/deposit): NewMessage and VerifyDepositAmounts. *)
(* Amounts are counted in a unit of which UnitsPerETH make one ETH.         *)

UnitsPerETH == 10
MaxAmounts == 2

ETH(n) == n * UnitsPerETH

MinDepositAmount == ETH(1)
DefaultDepositAmount == ETH(32)
MaxStandardDepositAmount == ETH(32)
MaxCompoundingDepositAmount == ETH(2048)

NoCall == [fn |-> "none"]
NoResult == [err |-> Nil]

\* The amounts of the calls: around every limit.
Amounts ==
    {0, MinDepositAmount - 1, MinDepositAmount, ETH(16),
     MaxStandardDepositAmount, MaxStandardDepositAmount + 1,
     MaxCompoundingDepositAmount, MaxCompoundingDepositAmount + 1}

\* The partial amounts of VerifyDepositAmounts: also 31 ETH, which with 1 ETH
\* reaches the sum, and 33 and 2049 ETH, the maxima and 1 ETH.
PartialAmounts ==
    {MinDepositAmount - 1, MinDepositAmount, ETH(16), ETH(31),
     MaxStandardDepositAmount + MinDepositAmount,
     MaxCompoundingDepositAmount + MinDepositAmount}

AmountLists == UNION {[1..n -> PartialAmounts] : n \in 0..MaxAmounts}

\* A withdrawal address: its 20 bytes.
WithdrawalAddrs == {[i \in 1..20 |-> i]}

\* The single-deposit maximum taken as the standard one always.
MaxDepositAmountStandard(compounding) == MaxStandardDepositAmount

\* MaxDepositAmount
MaxDepositAmount(compounding) ==
    IF compounding THEN MaxCompoundingDepositAmount ELSE MaxStandardDepositAmount

\* withdrawalCredsFromAddr: the prefix byte, eleven zero bytes, the address.
withdrawalCredsFromAddr(addr, compounding) ==
    <<IF compounding THEN 2 ELSE 1>> \o [i \in 1..11 |-> 0] \o addr

newMessage(pubkey, withdrawalAddr, amount, compounding) ==
    IF amount < MinDepositAmount
    THEN [err |-> "deposit message minimum amount must be >= 1ETH"]
    ELSE IF amount > MaxDepositAmount(compounding)
    THEN [err |-> "deposit message maximum amount exceeded"]
    ELSE [err |-> Nil,
          msg |-> [publicKey |-> pubkey, amount |-> amount,
                   withdrawalCredentials |->
                       withdrawalCredsFromAddr(withdrawalAddr, compounding)]]

NewMessage ==
    /\ depCall = NoCall
    /\ \E pubkey \in PubKeys, addr \in WithdrawalAddrs, amount \in Amounts,
          compounding \in BOOLEAN :
         /\ depCall' = [fn |-> "NewMessage", pubkey |-> pubkey, addr |-> addr,
                        amount |-> amount, compounding |-> compounding]
         /\ depRet' = newMessage(pubkey, addr, amount, compounding)
    /\ UNCHANGED nonDepositVars

\* The sum of the partial amounts taken as large enough always.
sumNeverTooSmall(sum) == FALSE

\* sum < DefaultDepositAmount
sumTooSmall(sum) == sum < DefaultDepositAmount

\* VerifyDepositAmounts, the loop over the amounts from amount i on, sum being
\* the sum of the amounts before it.
RECURSIVE verifyAmounts(_, _, _, _)
verifyAmounts(amounts, i, sum, compounding) ==
    IF i > Len(amounts)
    THEN IF sumTooSmall(sum)
         THEN "sum of partial deposit amounts must be at least 32ETH, repetition is allowed"
         ELSE Nil
    ELSE IF amounts[i] < MinDepositAmount
    THEN "each partial deposit amount must be greater than 1ETH"
    ELSE IF amounts[i] > MaxDepositAmount(compounding)
    THEN "single partial deposit amount is too large unless --compounding validators are used"
    ELSE verifyAmounts(amounts, i + 1, sum + amounts[i], compounding)

verifyDepositAmounts(amounts, compounding) ==
    IF Len(amounts) = 0 THEN Nil
    ELSE verifyAmounts(amounts, 1, 0, compounding)

VerifyDepositAmounts ==
    /\ depCall = NoCall
    /\ \E amounts \in AmountLists, compounding \in BOOLEAN :
         /\ depCall' = [fn |-> "VerifyDepositAmounts", amounts |-> amounts,
                        compounding |-> compounding]
         /\ depRet' = [err |-> verifyDepositAmounts(amounts, compounding)]
    /\ UNCHANGED nonDepositVars

\* The call has returned to its caller.
DepositReturn ==
    /\ depCall # NoCall
    /\ depCall' = NoCall
    /\ depRet' = NoResult
    /\ UNCHANGED nonDepositVars

InitDeposit ==
    /\ depCall = NoCall
    /\ depRet = NoResult

NextDeposit ==
    \/ NewMessage
    \/ VerifyDepositAmounts
    \/ DepositReturn

-----------------------------------------------------------------------------
(* Claims about the registrations of the Validator-API component (SpecVapi). *)

\* The registrations of a request that name a group key of the cluster.
ClusterRegs(r) == {i \in 1..Len(r.items) : r.items[i].pubkey \in PubKeys}

\* Registration i of the request was handed to a subscriber, on its own.
RegDelivered(r, i) ==
    \E c \in 1..Len(calls) :
        /\ calls[c].duty = Duty(r.items[i].slot, "builder_registration")
        /\ calls[c].set = (r.items[i].pubkey :> registrationPartial(r.items[i]))

\* C25: SubmitValidatorRegistrations succeeds without a subscriber call when the
\* list is empty or the builder API is disabled.  With the builder API enabled a
\* registration of a key outside the cluster is never handed to a subscriber and
\* never is the reason of an error: the request fails only if a registration of a
\* cluster key does, and every registration of a cluster key that comes before
\* the failing one (all of them when the request succeeds) is handed to the
\* subscribers, also the ones that follow a skipped registration.
C25_SwallowsOutsideRegistrations ==
    req.op = "SubmitValidatorRegistrations" =>
        /\ (Len(req.items) = 0 \/ ~builderEnabled) => (ret = NoRet /\ calls = <<>>)
        /\ builderEnabled =>
              /\ \A c \in 1..Len(calls) : DOMAIN calls[c].set \subseteq PubKeys
              /\ ClusterRegs(req) = {} => (ret = NoRet /\ calls = <<>>)
              /\ ret.err = Nil => \A i \in ClusterRegs(req) : RegDelivered(req, i)
              /\ ret.err # Nil =>
                    \E i \in ClusterRegs(req) :
                        \A j \in ClusterRegs(req) : j < i => RegDelivered(req, j)

\* With the builder API enabled, a request whose first registration names a key
\* outside the cluster has succeeded, its second registration delivered.
C25_Witness ==
    /\ builderEnabled
    /\ req.op = "SubmitValidatorRegistrations"
    /\ Len(req.items) = 2
    /\ req.items[1].pubkey = OutsideKey
    /\ req.items[2].pubkey \in PubKeys
    /\ ret = NoRet
    /\ RegDelivered(req, 2)
    /\ Len(calls) = NumSubs

-----------------------------------------------------------------------------
(* Claims about the query endpoints of the Validator-API component          *)
(* (SpecQuery).                                                             *)

ClusterKeys == {Eth2Key(pk) : pk \in PubKeys}

\* The duties of a beacon node response, the group key of every cluster validator
\* replaced by this operator's share of it and nothing else changed.
WithPubShares(duties) ==
    [i \in 1..Len(duties) |->
        IF duties[i].pubkey \in ClusterKeys
        THEN [duties[i] EXCEPT !.pubkey = PubShare(duties[i].pubkey[1], ShareIdx)]
        ELSE duties[i]]

NoNilDuty(duties) == \A i \in 1..Len(duties) : ~duties[i].isNil

OutsideDuty(duties) == \E i \in 1..Len(duties) : duties[i].pubkey \notin ClusterKeys

\* C23: a successful AttesterDuties or SyncCommitteeDuties response holds the
\* beacon node's duties, all of cluster validators, each with the validator's
\* pubshare in place of the group key and nothing else changed, and the request
\* fails with "pubshare not found" when the beacon node answers with a duty of a
\* key outside the cluster; a successful ProposerDuties response holds the beacon
\* node's duties, the key replaced for the cluster's validators and the duties of
\* unknown validators unchanged, and a duty of an unknown validator does not make
\* it fail.
C23_DutiesCarryPubShares ==
    /\ req.op \in {"AttesterDuties", "SyncCommitteeDuties"} =>
          /\ ret.err = Nil =>
                /\ ~OutsideDuty(req.eth2Resp.data)
                /\ ret.data = {WithPubShares(req.eth2Resp.data)}
          /\ (/\ req.eth2Resp.err = Nil
              /\ NoNilDuty(req.eth2Resp.data)
              /\ OutsideDuty(req.eth2Resp.data)) => ret.err = "pubshare not found"
    /\ req.op = "ProposerDuties" =>
          /\ ret.err = Nil => ret.data = {WithPubShares(req.eth2Resp.data)}
          /\ (req.eth2Resp.err = Nil /\ NoNilDuty(req.eth2Resp.data)) => ret.err = Nil

\* ProposerDuties has answered two duties, the first of a cluster validator, now
\* with the pubshare, the second of an unknown validator, as the beacon node gave it.
C23_Witness ==
    /\ req.op = "ProposerDuties"
    /\ ret.err = Nil
    /\ Len(req.eth2Resp.data) = 2
    /\ req.eth2Resp.data[1].pubkey = Eth2Key("A")
    /\ req.eth2Resp.data[2].pubkey = Eth2Key(OutsideKey)
    /\ \E duties \in ret.data :
          /\ duties[1].pubkey = PubShare("A", ShareIdx)
          /\ duties[1].slot = req.eth2Resp.data[1].slot
          /\ duties[2] = req.eth2Resp.data[2]

\* AttesterDuties has failed on a duty of a key outside the cluster.
C23_RefusedWitness ==
    /\ req.op = "AttesterDuties"
    /\ Len(req.eth2Resp.data) = 2
    /\ req.eth2Resp.data[1].pubkey = Eth2Key("A")
    /\ req.eth2Resp.data[2].pubkey = Eth2Key(OutsideKey)
    /\ ret = ErrRet("pubshare not found")

\* A Validators request that names pubkeys or indices.
NamesValidators == req.op = "Validators" /\ (Len(req.opts.pubkeys) + Len(req.opts.indices) > 0)

\* The requests for validators made to the beacon node.
ValidatorsCalls == {i \in 1..Len(calls) : calls[i].api = "Validators"}

UnknownShare(share) == share \notin {PubShare(pk, ShareIdx) : pk \in PubKeys}

\* The validators of the cached table that the request names by a pubshare.
CachedRequested ==
    {vIdx \in DOMAIN req.cached.vals :
        \E i \in 1..Len(req.opts.pubkeys) :
            req.opts.pubkeys[i] = PubShare(ActiveValidators[vIdx], ShareIdx)}

\* The group keys of the pubshares of the request that the cached table does not
\* hold, in the order of the request.
NotCachedRequested ==
    LET missing == SelectSeq(req.opts.pubkeys,
                             LAMBDA share : \A vIdx \in DOMAIN req.cached.vals :
                                 share # PubShare(ActiveValidators[vIdx], ShareIdx))
    IN [i \in 1..Len(missing) |-> Eth2Key(missing[i][1])]

\* A validator as the validator client is to see it.
Shared(val) == [val EXCEPT !.pubkey = PubShare(val.pubkey[1], ShareIdx)]

\* What C24 says of the shares, of the requests to the beacon node and of the
\* keys of the result.
C24_Rest ==
    /\ (\E i \in 1..Len(req.opts.pubkeys) : UnknownShare(req.opts.pubkeys[i]))
          => (ret.err # Nil /\ ValidatorsCalls = {})
    /\ \A c \in ValidatorsCalls :
          /\ Len(NotCachedRequested) > 0 \/ Len(req.opts.indices) > 0
          /\ calls[c].opts.pubkeys = NotCachedRequested
          /\ calls[c].opts.indices = req.opts.indices
    /\ ret.err = Nil =>
          \A out \in ret.data : \A vIdx \in DOMAIN out :
              ActiveValidators[vIdx] \in PubKeys
                  => out[vIdx].pubkey = PubShare(ActiveValidators[vIdx], ShareIdx)

\* C24 as stated: of a Validators request that names pubkeys or indices, an
\* unknown share fails the request before any request to the beacon node, the
\* beacon node is asked only when a pubkey is not cached or indices are given,
\* and then for the non-cached pubkeys and the indices, every cluster validator
\* of the result carries the pubshare, and every requested validator of the
\* cached table is in the result as the cache holds it.
C24_AsClaimed ==
    NamesValidators =>
        /\ C24_Rest
        /\ ret.err = Nil =>
              \A out \in ret.data : \A vIdx \in CachedRequested :
                  vIdx \in DOMAIN out /\ out[vIdx] = Shared(req.cached.vals[vIdx])

\* C24 amended: the same, but a requested validator of the cached table is in the
\* result as the cache holds it unless the beacon node, asked because of the
\* indices or of another pubkey, answers with a validator of the same index: the
\* result then holds the beacon node's.
C24_CacheThenBeaconNode ==
    NamesValidators =>
        /\ C24_Rest
        /\ ret.err = Nil =>
              \A out \in ret.data : \A vIdx \in CachedRequested :
                  /\ vIdx \in DOMAIN out
                  /\ IF ValidatorsCalls # {} /\ vIdx \in DOMAIN req.eth2Resp.vals
                     THEN out[vIdx] = Shared(req.eth2Resp.vals[vIdx])
                     ELSE out[vIdx] = Shared(req.cached.vals[vIdx])

\* Validators A and B were requested by pubshare, A being cached: the beacon node
\* was asked for B only and the result holds A as cached and B as answered.
C24_Witness ==
    /\ NamesValidators
    /\ req.opts = [pubkeys |-> <<PubShare("A", ShareIdx), PubShare("B", ShareIdx)>>,
                   indices |-> <<>>]
    /\ DOMAIN req.cached.vals = {0}
    /\ calls = <<Eth2Call("CompleteValidators", [pubkeys |-> <<>>, indices |-> <<>>]),
                 Eth2Call("Validators", [pubkeys |-> <<Eth2Key("B")>>, indices |-> <<>>])>>
    /\ ret = wrapResponse((0 :> Shared(Validator(0, "active")))
                              @@ (1 :> Shared(Validator(1, "exited"))))

\* Validator A was requested by pubshare and by index, A being cached as active:
\* the beacon node answered the index with A exited, and so does the result.
C24_RequeriedWitness ==
    /\ NamesValidators
    /\ req.opts = [pubkeys |-> <<PubShare("A", ShareIdx)>>, indices |-> <<0>>]
    /\ req.cached.err = Nil /\ DOMAIN req.cached.vals = {0}
    /\ ret = wrapResponse((0 :> Shared(Validator(0, "exited"))))

\* A request with a share of another operator has failed, the beacon node not asked.
C24_UnknownShareWitness ==
    /\ NamesValidators
    /\ req.opts.pubkeys = <<PubShare("A", ShareIdx), PubShare("B", NumShares)>>
    /\ req.cached.err = Nil
    /\ ret = ErrRet("mismatching validator client key share index")
    /\ ValidatorsCalls = {}

\* The number a sequence of decimal digits stands for.
RECURSIVE ParseInt(_)
ParseInt(digits) ==
    IF Len(digits) = 0 THEN 0
    ELSE 10 * ParseInt(SubSeq(digits, 1, Len(digits) - 1)) + digits[Len(digits)]

\* C26: a ProposerConfig response has exactly one proposer entry per cluster
\* validator, under this operator's pubshare, with the validator's fee recipient,
\* the builder enabled as the component's builder flag says, the gas limit the
\* configured target or 30000000 when the target is 0, and the override timestamp
\* the genesis time plus one slot duration; its default entry has the builder
\* disabled and the zero address as fee recipient.
C26_ProposerConfig ==
    (req.op = "ProposerConfig" /\ ret.err = Nil) =>
        /\ ret.data # {}
        /\ \A resp \in ret.data :
              /\ DOMAIN resp.proposers = {PubShare(pk, ShareIdx) : pk \in PubKeys}
              /\ Cardinality(DOMAIN resp.proposers) = Cardinality(PubKeys)
              /\ \A pk \in PubKeys :
                    LET entry == resp.proposers[PubShare(pk, ShareIdx)] IN
                    /\ entry.feeRecipient = feeRecipientFunc(pk)
                    /\ entry.builder.enabled = builderEnabled
                    /\ entry.builder.gasLimit =
                          IF targetGasLimit = 0 THEN 30000000 ELSE targetGasLimit
                    /\ ParseInt(entry.builder.overrides.timestamp)
                          = req.genesis.time + req.slotsConfig.slotDuration
              /\ ~resp.default.builder.enabled
              /\ resp.default.feeRecipient = zeroAddress

\* A component with the builder API enabled and no target gas limit has answered
\* ProposerConfig, the genesis time being 95 and the slot duration 6.
C26_Witness ==
    /\ req.op = "ProposerConfig"
    /\ builderEnabled
    /\ targetGasLimit = 0
    /\ req.genesis.time = 95 /\ req.slotsConfig = [err |-> Nil, slotDuration |-> 6]
    /\ \E resp \in ret.data :
          /\ resp.proposers[PubShare("A", ShareIdx)].builder.gasLimit = 30000000
          /\ resp.proposers[PubShare("A", ShareIdx)].builder.overrides.timestamp = <<1, 0, 1>>
          /\ resp.proposers[PubShare("B", ShareIdx)].builder.enabled

\* The configured target gas limits: none, or one that is not the default.
GasLimits == {0, 36000000}

NextQuery ==
    \/ ProposerDuties
    \/ AttesterDuties
    \/ SyncCommitteeDuties
    \/ Validators
    \/ ProposerConfig
    \/ Return

-----------------------------------------------------------------------------
(* Claims about the HTTP router (SpecRouter, SpecRouterLive).               *)

NumericParam(chars) ==
    Len(chars) > 0 /\ \A i \in 1..Len(chars) : chars[i] \in {"0", "1", "2", "3"}

\* What is wrong with the input of a request to a handled endpoint: the messages
\* of spec 6, "Error envelope".
Defects(request) ==
    (IF NumericParam(request.param) THEN {}
     ELSE {Message("invalid uint path parameter",
                   IF request.endpoint = "proposal" THEN "slot" ELSE "epoch",
                   request.param)})
    \cup (IF request.endpoint = "proposal" /\ ~request.query.present
          THEN {Message("missing 0x-hex query parameter", "randao_reveal", <<>>)} ELSE {})
    \cup (IF request.endpoint = "proposal" /\ request.query.present /\ request.query.len # 96
          THEN {Message("invalid length for 0x-hex query parameter", "randao_reveal",
                        <<"96">>)}
          ELSE {})
    \cup (IF request.endpoint # "proposal" /\ request.body = ""
          THEN {Message("empty request body", Nil, <<>>)} ELSE {})
    \cup (IF request.endpoint # "proposal" /\ request.body = "not json"
          THEN {Message("failed parsing json request body", Nil, <<>>)} ELSE {})

\* C27: a request to a handled endpoint whose path parameter is no number, whose
\* 0x-hex query parameter is missing or of the wrong length, or whose body is
\* empty or no JSON is answered with status 400, Content-Type application/json
\* and the body {code: 400, message}, the message naming one of these defects,
\* and the Handler's operation is not invoked.
C27_ParseErrorsAre400 ==
    (/\ routerPc = "responded"
     /\ httpReq.endpoint \in HandledEndpoints
     /\ Defects(httpReq) # {}) =>
        /\ httpResp.status = 400
        /\ httpResp.contentType = "application/json"
        /\ httpResp.body.code = 400
        /\ httpResp.body.message \in Defects(httpReq)
        /\ invoked = <<>>

\* GET /eth/v3/validator/blocks/123?randao_reveal=0x0000 has been answered with
\* 400 and the message of the wrong length.
C27_Witness ==
    /\ routerPc = "responded"
    /\ httpReq = [endpoint |-> "proposal", param |-> <<"1", "2", "3">>,
                  query |-> [present |-> TRUE, len |-> 2], body |-> ""]
    /\ httpResp = [status |-> 400, contentType |-> "application/json",
                   body |-> [code |-> 400,
                             message |-> Message("invalid length for 0x-hex query parameter",
                                                 "randao_reveal", <<"96">>)]]
    /\ invoked = <<>>

\* A request with a wrong path parameter and an empty body got one 400.
C27_TwoDefectsWitness ==
    /\ routerPc = "responded"
    /\ httpReq.endpoint = "attester_duties"
    /\ Cardinality(Defects(httpReq)) = 2
    /\ httpResp.status = 400

\* A proxied request: to an endpoint the router does not handle.
Proxied == httpReq.endpoint \in ProxiedEndpoints

\* C28: a request to an endpoint the router does not handle goes to the beacon
\* node as it came, no Handler operation invoked; and once the context of the
\* proxy handler is cancelled while the request is in flight upstream, the
\* request ends and the client has a response: the request in flight upstream
\* does not stay in flight, and a request ended by the cancellation is answered.
C28_ProxyCancelledOnShutdown ==
    /\ [](Proxied => invoked = <<>>)
    /\ []((Proxied /\ upstream # NoUpstream) => upstream.request = httpReq)
    /\ []((Proxied /\ routerPc = "responded") => httpResp.status # 0)
    /\ [](routerPc = "responded" => upstream.state # "serving")
    /\ (routerPc = "proxying" /\ proxyCtx = "cancelled") ~> (routerPc = "responded")

\* A proxied request has ended on the cancellation of the context while it was
\* served upstream, and the client has a response.
C28_Witness ==
    /\ Proxied
    /\ routerPc = "responded"
    /\ proxyCtx = "cancelled"
    /\ upstream.state = "cancelled"
    /\ httpResp = BadGateway

-----------------------------------------------------------------------------
(* Claims about package deposit (SpecDeposit).                              *)

\* C29: NewMessage returns an error exactly when the amount is below 1 ETH or
\* above the maximum, 32 ETH, or 2048 ETH when compounding; the message it
\* returns otherwise carries the public key and the amount given, and its
\* withdrawal credentials start with the byte 0x02 when compounding and 0x01
\* otherwise.
C29_NewMessageBounds ==
    depCall.fn = "NewMessage" =>
        /\ depRet.err # Nil <=>
              \/ depCall.amount < ETH(1)
              \/ depCall.amount > (IF depCall.compounding THEN ETH(2048) ELSE ETH(32))
        /\ depRet.err = Nil =>
              /\ depRet.msg.publicKey = depCall.pubkey
              /\ depRet.msg.amount = depCall.amount
              /\ depRet.msg.withdrawalCredentials[1] = (IF depCall.compounding THEN 2 ELSE 1)

\* NewMessage has returned a compounding message of 2048 ETH.
C29_Witness ==
    /\ depCall.fn = "NewMessage"
    /\ depCall.compounding
    /\ depCall.amount = ETH(2048)
    /\ depRet.err = Nil
    /\ depRet.msg.amount = ETH(2048)
    /\ depRet.msg.withdrawalCredentials[1] = 2
    /\ Len(depRet.msg.withdrawalCredentials) = 32

\* NewMessage has refused 32 ETH and one unit for a validator that is not compounding.
C29_RefusedWitness ==
    /\ depCall.fn = "NewMessage"
    /\ ~depCall.compounding
    /\ depCall.amount = ETH(32) + 1
    /\ depRet = [err |-> "deposit message maximum amount exceeded"]

RECURSIVE SumOf(_)
SumOf(amounts) ==
    IF Len(amounts) = 0 THEN 0
    ELSE amounts[1] + SumOf(SubSeq(amounts, 2, Len(amounts)))

\* C30: VerifyDepositAmounts accepts the empty list, and rejects a list that is
\* not empty exactly when one of its amounts is below 1 ETH, one of its amounts
\* is above the single-deposit maximum (32 ETH, or 2048 ETH when compounding),
\* or the sum of its amounts is below 32 ETH.
C30_VerifyDepositAmounts ==
    depCall.fn = "VerifyDepositAmounts" =>
        LET amounts == depCall.amounts
            max == IF depCall.compounding THEN ETH(2048) ELSE ETH(32)
        IN
        /\ Len(amounts) = 0 => depRet.err = Nil
        /\ Len(amounts) > 0 =>
              (depRet.err # Nil <=>
                  \/ \E i \in 1..Len(amounts) : amounts[i] < ETH(1)
                  \/ \E i \in 1..Len(amounts) : amounts[i] > max
                  \/ SumOf(amounts) < ETH(32))

\* VerifyDepositAmounts has accepted 1 ETH and 33 ETH for compounding validators.
C30_Witness ==
    /\ depCall.fn = "VerifyDepositAmounts"
    /\ depCall.compounding
    /\ depCall.amounts = <<ETH(1), ETH(33)>>
    /\ depRet.err = Nil

\* VerifyDepositAmounts has refused two amounts in range whose sum is 17 ETH.
C30_SumWitness ==
    /\ depCall.fn = "VerifyDepositAmounts"
    /\ depCall.amounts = <<ETH(1), ETH(16)>>
    /\ depRet.err = "sum of partial deposit amounts must be at least 32ETH, repetition is allowed"

-----------------------------------------------------------------------------
(* Fetch towards its subscribers.                                            *)

\* The loop of the Fetch that has ended stopped at a validator of the definition
\* set with an error.
LoopFailed ==
    /\ fpc = "done"
    /\ refused(freq.duty.type) = Nil
    /\ fidx <= Len(freq.order)

\* C33: Fetch is all-or-nothing towards the subscribers.  When the fetch of the
\* unsigned data failed at a validator of the definition set, Fetch returns the
\* error and has called no subscriber.  Every subscriber called was called in
\* registration order with the whole unsigned set, after the loop went through
\* every validator (the set of a Proposer or Attester duty holds every validator
\* of the definition set).  When a subscriber returned an error, Fetch returns
\* that error and the subscribers registered after it were not called.
C33_FetchAllOrNothing ==
    /\ LoopFailed => (fret # Nil /\ fcalls = <<>>)
    /\ fcalls # <<>> =>
          /\ Fetched
          /\ Len(fcalls) <= Len(fsubs)
          /\ \A i \in 1..Len(fcalls) :
                /\ fcalls[i].sub = fsubs[i]
                /\ fcalls[i].duty = freq.duty
                /\ fcalls[i].set = fresp
          /\ freq.duty.type \in {"proposer", "attester"}
                => DOMAIN fresp = DOMAIN freq.defSet
    /\ \A k \in 1..Len(fsubs) :
          (fpc = "done" /\ fret = SubscriberError(fsubs[k])) => Len(fcalls) = k
    /\ (fpc = "done" /\ Fetched /\ fret = Nil /\ ~noneSelected(freq.duty.type, fresp))
          => Len(fcalls) = Len(fsubs)

\* The first of two subscribers failed: Fetch returned its error and the second
\* was not called, the unsigned set holding two validators.
C33_Witness ==
    /\ fpc = "done"
    /\ Len(fsubs) = 2
    /\ fret = SubscriberError(fsubs[1])
    /\ Len(fcalls) = 1
    /\ Cardinality(DOMAIN fresp) = 2

\* The fetch failed at the second validator of an Attester duty, the first having
\* been resolved: no subscriber was called.
C33_LoopWitness ==
    /\ LoopFailed
    /\ freq.duty.type = "attester"
    /\ fidx = 2
    /\ Len(fqueries) = 2
    /\ Len(fsubs) = 2
    /\ fret # Nil
    /\ fcalls = <<>>

-----------------------------------------------------------------------------
(* The proposer path of one slot (spec 4.2 to 4.8, 5): on every            *)
(* node the validator client calls Proposal with its partial randao reveal, *)
(* the partials are exchanged and aggregated, the Fetcher waits for the     *)
(* aggregated randao and fetches a block, consensus decides one block and   *)
(* DutyDB stores it, which lets the Proposal calls return.                  *)

NumNodes == 3

\* The nodes of the cluster, each with the share of its index.
Nodes == 1..NumNodes

\* The cluster's threshold: 2 in a cluster of 3.
PathThreshold == (2 * NumNodes + 2) \div 3

Blocks == {"b1", "b2"}

\* The slot of the proposer duty.
PathSlot == MaxSlot

RandaoDuty == Duty(PathSlot, "randao")

\* The block the beacon node of a node builds for the slot: the beacon nodes of the
\* cluster need not agree.
BlockOf(n) == IF n = 1 THEN "b1" ELSE "b2"

\* The partial randao reveal of a node's share, as held by ParSigDB.
RandaoPartial(share) == [duty |-> RandaoDuty, share |-> share]

\* A mutant: Proposal waits for the DutyDB proposal before it hands the partial
\* randao reveal to its subscribers.
ProposalCallAwaitsFirst(n) ==
    /\ pVc[n] = "idle"
    /\ \E verified \in BOOLEAN :
         IF ~verified
         THEN /\ pVc' = [pVc EXCEPT ![n] = "failed"]
              /\ pRet' = [pRet EXCEPT ![n] = "signature not verified"]
         ELSE /\ pVc' = [pVc EXCEPT ![n] = "awaiting"]
              /\ pRet' = pRet
    /\ UNCHANGED <<pParsigs, pAggs, pFetch, pDecided, pDutyDB, nonPathVars>>

\* Component.Proposal up to its blocking query of DutyDB: the partial randao reveal
\* is verified and handed to the subscribers (the node's ParSigDB) under the randao
\* duty of the slot; a reveal that does not verify ends the call.
ProposalCall(n) ==
    /\ pVc[n] = "idle"
    /\ \E verified \in BOOLEAN :
         IF ~verified
         THEN /\ pVc' = [pVc EXCEPT ![n] = "failed"]
              /\ pRet' = [pRet EXCEPT ![n] = "signature not verified"]
              /\ pParsigs' = pParsigs
         ELSE /\ pVc' = [pVc EXCEPT ![n] = "awaiting"]
              /\ pRet' = pRet
              /\ pParsigs' = [pParsigs EXCEPT ![n] = @ \cup {RandaoPartial(n)}]
    /\ UNCHANGED <<pAggs, pFetch, pDecided, pDutyDB, nonPathVars>>

\* c.awaitProposalFunc returns the stored proposal: Proposal returns it.
ProposalReturn(n) ==
    /\ pVc[n] = "awaiting"
    /\ pDutyDB[n] # Nil
    /\ pVc' = [pVc EXCEPT ![n] = "returned"]
    /\ pRet' = [pRet EXCEPT ![n] = pDutyDB[n]]
    /\ UNCHANGED <<pParsigs, pAggs, pFetch, pDecided, pDutyDB, nonPathVars>>

\* The validator client gives up: c.awaitProposalFunc returns the context's error.
ProposalCancelled(n) ==
    /\ pVc[n] = "awaiting"
    /\ pVc' = [pVc EXCEPT ![n] = "failed"]
    /\ pRet' = [pRet EXCEPT ![n] = "context canceled"]
    /\ UNCHANGED <<pParsigs, pAggs, pFetch, pDecided, pDutyDB, nonPathVars>>

\* ParSigEx: node n receives the partial that node m stored for its own share.
ParSigExReceive(n, m) ==
    /\ n # m
    /\ \E par \in pParsigs[m] :
         /\ par.share = m
         /\ par \notin pParsigs[n]
         /\ pParsigs' = [pParsigs EXCEPT ![n] = @ \cup {par}]
    /\ UNCHANGED <<pVc, pRet, pAggs, pFetch, pDecided, pDutyDB, nonPathVars>>

\* ParSigDB of node n holds a threshold of partials of a duty: SigAgg combines them
\* and AggSigDB stores the aggregated signature.
SigAggStore(n) ==
    /\ \E par \in pParsigs[n] :
         /\ par.duty \notin pAggs[n]
         /\ Cardinality({q \in pParsigs[n] : q.duty = par.duty}) >= PathThreshold
         /\ pAggs' = [pAggs EXCEPT ![n] = @ \cup {par.duty}]
    /\ UNCHANGED <<pVc, pRet, pParsigs, pFetch, pDecided, pDutyDB, nonPathVars>>

\* fetchProposerData, blocked in f.aggSigDBFunc(ctx, NewRandaoDuty(slot), pubkey),
\* finds the aggregated randao in AggSigDB: it asks the beacon node for a block with
\* it and Fetch hands the block to consensus.
FetchBlock(n) ==
    /\ pFetch[n] = "awaitRandao"
    /\ RandaoDuty \in pAggs[n]
    /\ pFetch' = [pFetch EXCEPT ![n] = BlockOf(n)]
    /\ UNCHANGED <<pVc, pRet, pParsigs, pAggs, pDecided, pDutyDB, nonPathVars>>

\* Consensus decides one of the blocks proposed to it.
ConsensusDecide ==
    /\ pDecided = Nil
    /\ \E n \in Nodes :
         /\ pFetch[n] \in Blocks
         /\ pDecided' = pFetch[n]
    /\ UNCHANGED <<pVc, pRet, pParsigs, pAggs, pFetch, pDutyDB, nonPathVars>>

\* The decided block reaches DutyDB of node n.
DutyDBStore(n) ==
    /\ pDecided # Nil
    /\ pDutyDB[n] = Nil
    /\ pDutyDB' = [pDutyDB EXCEPT ![n] = pDecided]
    /\ UNCHANGED <<pVc, pRet, pParsigs, pAggs, pFetch, pDecided, nonPathVars>>

\* The scheduler has triggered the Fetch of the proposer duty on every node; no
\* validator client has called yet.
InitPath ==
    /\ pVc = [n \in Nodes |-> "idle"]
    /\ pRet = [n \in Nodes |-> Nil]
    /\ pParsigs = [n \in Nodes |-> {}]
    /\ pAggs = [n \in Nodes |-> {}]
    /\ pFetch = [n \in Nodes |-> "awaitRandao"]
    /\ pDecided = Nil
    /\ pDutyDB = [n \in Nodes |-> Nil]

\* The steps of the pipeline and the return of a Proposal whose value is stored.
PathProgress ==
    \/ \E n \in Nodes : \E m \in Nodes : ParSigExReceive(n, m)
    \/ \E n \in Nodes : SigAggStore(n)
    \/ \E n \in Nodes : FetchBlock(n)
    \/ ConsensusDecide
    \/ \E n \in Nodes : DutyDBStore(n)
    \/ \E n \in Nodes : ProposalReturn(n)

NextPath ==
    \/ \E n \in Nodes : ProposalCall(n)
    \/ \E n \in Nodes : ProposalCancelled(n)
    \/ PathProgress

\* The nodes whose Proposal call handed its partial randao reveal to ParSigDB.
Delivered == {n \in Nodes : RandaoPartial(n) \in pParsigs[n]}

\* C32: Proposal hands the verified partial randao reveal to its subscribers under
\* the randao duty of the slot before it waits for the DutyDB proposal; a call that
\* returns, returns the decided block; and once a threshold of operators have
\* called, there is always a later moment at which no call is left waiting for the
\* proposal (each has returned the block, unless its validator client cancelled it).
C32_ProposerPathProgress ==
    /\ [](\A n \in Nodes : pVc[n] \in {"awaiting", "returned"} => n \in Delivered)
    /\ [](\A n \in Nodes : pVc[n] = "returned" => (pDecided # Nil /\ pRet[n] = pDecided))
    /\ (Cardinality(Delivered) >= PathThreshold)
          ~> (\A n \in Nodes : pVc[n] # "awaiting")

\* Exactly a threshold of operators called Proposal and each call returned the
\* decided block, the Fetcher of every node having waited for the aggregated randao.
C32_Witness ==
    /\ Cardinality(Delivered) = PathThreshold
    /\ \A n \in Delivered : pVc[n] = "returned" /\ pRet[n] = pDecided
    /\ \A n \in Nodes \ Delivered : pVc[n] = "idle"
    /\ \A n \in Nodes : pFetch[n] \in Blocks
    /\ \E n \in Nodes : pFetch[n] # pDecided

-----------------------------------------------------------------------------
(* Specifications: each runs one component from its initial state, the      *)
(* others idle.                                                             *)

IdleVapi ==
    /\ insecureTest = FALSE
    /\ builderEnabled = FALSE
    /\ req = NoReq
    /\ calls = <<>>
    /\ ret = NoRet

IdlePipe == InitPipe /\ dutyType = "attester"

IdleQuery == targetGasLimit = 0

IdleMore == IdleQuery /\ InitRouter /\ InitDeposit /\ InitPath

IdleRest ==
    /\ electraSlot = MaxSlot /\ fetcherBuilder = FALSE /\ IdleFetch /\ IdleSubs /\ InitCache
    /\ IdleMore

SpecVapiInit == InitVapi /\ InitStore /\ IdlePipe /\ IdleRest

SpecVapi == SpecVapiInit /\ [][NextVapi]_vars

SpecStoreInit == IdleVapi /\ InitStore /\ IdlePipe /\ IdleRest

SpecStore == SpecStoreInit /\ [][NextStore]_vars

SpecPipeInit == IdleVapi /\ InitStore /\ InitPipe /\ IdleRest

SpecPipe == SpecPipeInit /\ [][NextPipe]_vars

SpecFetchInit ==
    IdleVapi /\ InitStore /\ IdlePipe /\ InitFetch /\ IdleSubs /\ InitCache /\ IdleMore

SpecFetch == SpecFetchInit /\ [][NextFetch]_vars

SpecSubsInit == IdleVapi /\ InitStore /\ IdlePipe /\ IdleRest
SpecSubs == SpecSubsInit /\ [][NextSubs]_vars

SpecCacheInit == IdleVapi /\ InitStore /\ IdlePipe /\ IdleRest

SpecCache == SpecCacheInit /\ [][NextCache]_vars

InitQuery ==
    /\ insecureTest = FALSE
    /\ builderEnabled \in BOOLEAN
    /\ targetGasLimit \in GasLimits
    /\ req = NoReq
    /\ calls = <<>>
    /\ ret = NoRet

SpecQueryInit ==
    /\ InitQuery /\ InitStore /\ IdlePipe
    /\ electraSlot = MaxSlot /\ fetcherBuilder = FALSE /\ IdleFetch /\ IdleSubs /\ InitCache
    /\ InitRouter /\ InitDeposit /\ InitPath

SpecQuery == SpecQueryInit /\ [][NextQuery]_vars

SpecRouterInit == IdleVapi /\ InitStore /\ IdlePipe /\ IdleRest

SpecRouter == SpecRouterInit /\ [][NextRouter]_vars

\* The proxy observes the cancellation of its context.
SpecRouterLive == SpecRouter /\ WF_vars(ProxyCancelled)

SpecDepositInit == IdleVapi /\ InitStore /\ IdlePipe /\ IdleRest

SpecDeposit == SpecDepositInit /\ [][NextDeposit]_vars

SpecPathInit ==
    /\ IdleVapi /\ InitStore /\ IdlePipe
    /\ electraSlot = MaxSlot /\ fetcherBuilder = FALSE /\ IdleFetch /\ IdleSubs /\ InitCache
    /\ IdleQuery /\ InitRouter /\ InitDeposit /\ InitPath

SpecPath == SpecPathInit /\ [][NextPath]_vars

\* Every stage runs in its own thread and a blocked Await returns once its value is
\* stored: a step of the pipeline that can be taken is taken.  The validator clients
\* are under no obligation to call, nor to cancel.
SpecPathLive == SpecPath /\ WF_vars(PathProgress)

====
